---- MODULE Spec2Model ----
(***************************************************************************)
(* A model of the questdb-go mapping engine: NewModel (schema derivation   *)
(* over reflect types and values), Model.serialize, Model.MarshalLine and  *)
(* Model.CreateTableIfNotExistStatement, with ScanInto, the Client's calls  *)
(* (Write, WriteBatch, CreateTableIfNotExists, Connect, Close) and         *)
(* Line.String.                                                            *)
(*                                                                         *)
(* A Go string is a sequence of tokens (TLA+ strings); concatenation is    *)
(* \o.  Separators (";", ":", ",", " ", "=", "\n") are tokens of their own *)
(* so that splitting and joining are computed, never assumed.              *)
(***************************************************************************)
EXTENDS Naturals, Sequences, FiniteSets, TLC

VARIABLES
    typ,      \* the record type handed to NewModel (reflect.Type of a)
    rec,      \* the caller's record, as it is in memory now
    byPtr,    \* TRUE when the caller passes &rec, FALSE when it passes rec
    pc,       \* "start", "modelled", "error" or "panic"
    model,    \* the *Model NewModel returned (NoModel before, and on failure)
    err,      \* the error NewModel returned
    line,     \* the result of the last MarshalLine call
    stmt,     \* the result of the last CreateTableIfNotExistStatement call
    muts,     \* number of assignments the caller made to rec after NewModel
    dests,    \* the destinations ScanInto handed to row.Scan
    scanned,  \* the calls row.Scan made on the destinations, in order
    wire,     \* the payloads written to the ingestion transport, in order
    execd,    \* the statements executed over the query transport, in order
    call,     \* the call made on the client: its name, rows and options
    ilpLine,  \* the *Line NewLine returned (NoLine before)
    rendered, \* the strings the String calls on ilpLine returned, in order
    stack,    \* the frames of structToFieldSlice in progress, innermost last
    client,   \* the *Client: its config, ilpConn and pgSqlDB
    conns     \* the connections dialed so far: "open" or "closed"

vars == <<typ, rec, byPtr, pc, model, err, line, stmt, muts, dests, scanned, wire, execd, call,
          ilpLine, rendered, stack, client, conns>>
\* what the calls of the client and of ScanInto leave behind
ioVars == <<dests, scanned, wire, execd, call, ilpLine, rendered, stack, client, conns>>
\* what NewLine and Line.String leave behind
lineVars == <<ilpLine, rendered>>
\* the schema walk in progress and the connections of the client
connVars == <<stack, client, conns>>

-----------------------------------------------------------------------------
(* Bounds of the model *)

\* rows handed to one WriteBatch call
MaxRows == 2
\* String calls made on one Line
MaxCalls == 2
\* nested structToFieldSlice calls the goroutine stack has room for
MaxStack == 4
\* connections the client dials
MaxDials == 2
\* fields of the top-level record type
MaxFields == 2
\* payloads of a leaf value range over 0..MaxVal (0 is the Go zero value)
MaxVal == 1
\* assignments to the record between NewModel and MarshalLine
MaxMuts == 1

-----------------------------------------------------------------------------
(* Sequence helpers *)

RECURSIVE SplitAcc(_, _, _, _)
SplitAcc(s, sep, cur, acc) ==
    IF s = <<>> THEN Append(acc, cur)
    ELSE IF Head(s) = sep
         THEN SplitAcc(Tail(s), sep, <<>>, Append(acc, cur))
         ELSE SplitAcc(Tail(s), sep, Append(cur, Head(s)), acc)

\* strings.Split(s, sep): always at least one part; "" splits into [""]
Split(s, sep) == SplitAcc(s, sep, <<>>, <<>>)

\* tagProps[from:]
SliceFrom(s, from) == IF from > Len(s) THEN <<>> ELSE SubSeq(s, from, Len(s))

RECURSIVE Flatten(_)
Flatten(ss) == IF ss = <<>> THEN <<>> ELSE Head(ss) \o Flatten(Tail(ss))

-----------------------------------------------------------------------------
(* QuestDBType names, src/types.go *)

Boolean == <<"boolean">>
Byte == <<"byte">>
Short == <<"short">>
Char == <<"char">>
Int == <<"int">>
Float == <<"float">>
Symbol == <<"symbol">>
String == <<"string">>
JSON == <<"json">>
Long == <<"long">>
Date == <<"date">>
Timestamp == <<"timestamp">>
Double == <<"double">>
Binary == <<"binary">>
Long256 == <<"long256">>
Geohash == <<"geohash">>
Embedded == <<"embedded">>

supportedQDBTypes ==
    <<Boolean, Byte, Short, Char, Int, Float, Symbol, String, Long, Date,
      Timestamp, Double, Binary, JSON>>

\* the supported list with long256 left in
isValidAndSupportedQuestDBType_Long256(str) ==
    \E i \in 1..Len(supportedQDBTypes \o <<Long256>>) : (supportedQDBTypes \o <<Long256>>)[i] = str

isValidAndSupportedQuestDBType(str) ==
    \E i \in 1..Len(supportedQDBTypes) : supportedQDBTypes[i] = str

-----------------------------------------------------------------------------
(* reflect.Type and reflect.Value                                          *)
(*                                                                         *)
(* A type is [kind, ptr, fields]: kind is the Go kind of the (pointed-to)  *)
(* type, ptr says the type is a pointer to it, fields are the struct       *)
(* fields [Name, Tag, Type] of a struct kind.  A value is                  *)
(* [kind, ptr, nil, v, fields]: v is the payload of a leaf (0 is the zero  *)
(* value of every leaf kind), fields the field values of a struct.         *)

Invalid == [kind |-> "invalid", ptr |-> FALSE, nil |-> FALSE, v |-> 0, fields |-> <<>>]

IsValid(val) == val.kind # "invalid"

\* reflect.Value.Elem of a pointer: the zero Value when the pointer is nil
Elem(val) == IF val.nil THEN Invalid ELSE [val EXCEPT !.ptr = FALSE]

\* reflect.Type.Elem of a pointer type
TypeElem(ty) == [ty EXCEPT !.ptr = FALSE]

NumField(ty) == Len(ty.fields)

RECURSIVE IsZero(_)
\* reflect.Value.IsZero: a nil pointer, a struct of zero fields, a zero leaf
IsZero(val) ==
    IF val.ptr THEN val.nil
    ELSE IF val.kind = "struct"
         THEN \A i \in 1..Len(val.fields) : IsZero(val.fields[i])
         ELSE val.v = 0

RECURSIVE Lookup(_, _)
\* the storage a chain of Field(i) calls, through pointers, ends at
Lookup(root, path) ==
    IF path = <<>> THEN root
    ELSE LET s == IF root.ptr THEN Elem(root) ELSE root
         IN  IF IsValid(s) THEN Lookup(s.fields[Head(path)], Tail(path)) ELSE Invalid

-----------------------------------------------------------------------------
(* Errors: the kind of message, and the field name that prefixes it *)

NoErr == [kind |-> "nil", field |-> <<>>]
Err(kind, fieldName) == [kind |-> kind, field |-> fieldName]

-----------------------------------------------------------------------------
(* Tag options, src/tag.go *)

\* ensureOptionsAreValid passing over empty option segments
ensureOptionsAreValid_SkipEmpty(opts) ==
    IF \E i \in 1..Len(opts) : opts[i] # <<>> /\ Len(Split(opts[i], ":")) # 2
    THEN Err("not valid option", <<>>)
    ELSE NoErr

ensureOptionsAreValid(opts) ==
    IF \E i \in 1..Len(opts) : Len(Split(opts[i], ":")) # 2
    THEN Err("not valid option", <<>>)
    ELSE NoErr

RECURSIVE getOption(_, _)
getOption(opts, option) ==
    IF opts = <<>> THEN <<>>
    ELSE LET vSplit == Split(Head(opts), ":")
         IN  IF option = vSplit[1] THEN vSplit[2] ELSE getOption(Tail(opts), option)

\* the zero tagOptions{}: index is a field of the struct that model.go reads
tagOptions == [embeddedPrefix |-> <<>>, designatedTS |-> FALSE,
               commitZeroValue |-> FALSE, index |-> FALSE]

makeTagOptions(f, tagsOpts) ==
    LET embeddedPrefix == getOption(tagsOpts, <<"embeddedPrefix">>)
        o1 == IF embeddedPrefix # <<>>
              THEN [tagOptions EXCEPT !.embeddedPrefix = embeddedPrefix]
              ELSE tagOptions
        isDesignatedTSField == getOption(tagsOpts, <<"designatedTS">>)
        commitZeroValueField == getOption(tagsOpts, <<"commitZeroValue">>)
    IN  IF isDesignatedTSField = <<"true">> /\ f.qdbType # Timestamp
        THEN [opts |-> o1, err |-> Err("type must be timestamp", <<>>)]
        ELSE [opts |-> [o1 EXCEPT !.designatedTS = (isDesignatedTSField = <<"true">>),
                                  !.commitZeroValue = (commitZeroValueField = <<"true">>)],
              err |-> NoErr]

-----------------------------------------------------------------------------
(* Schema derivation, src/model.go *)

\* what structToFieldSlice returns; panic marks a run-time panic of reflect
Fields(fields) == [fields |-> fields, err |-> NoErr, panic |-> FALSE]
Failed(e) == [fields |-> <<>>, err |-> e, panic |-> FALSE]
Panicked == [fields |-> <<>>, err |-> NoErr, panic |-> TRUE]

\* the test for the sentinel, taking every annotation that starts with -
ignored_Prefix(tagStr) == tagStr # <<>> /\ Head(tagStr) = "-"

\* fields that are marked to ignore
ignored(tagStr) == tagStr = <<"-">>

RECURSIVE structToFieldSliceFrom(_, _, _, _, _, _, _)
\* the loop of structToFieldSlice from field i on; path is where val is stored
\* in the record, so that a field's reflect.Value stays a reference to it
structToFieldSliceFrom(fieldPrefix, colPrefix, ty, val, path, i, fields) ==
    IF TypeElem(ty).kind # "struct" THEN Panicked
    ELSE IF i > NumField(ty) THEN Fields(fields)
    ELSE
    LET fieldType == ty.fields[i]
        v == IF val.ptr THEN Elem(val) ELSE val
        fieldValue == IF IsValid(v)
                      THEN [valid |-> TRUE, path |-> Append(path, i)]
                      ELSE [valid |-> FALSE, path |-> <<>>]
        fieldName == fieldPrefix \o fieldType.Name
        tagStr == fieldType.Tag
        tagProps == Split(tagStr, ";")
    IN  IF ignored(tagStr)
        THEN structToFieldSliceFrom(fieldPrefix, colPrefix, ty, val, path, i + 1, fields)
        ELSE IF Len(tagProps) < 2
        THEN Failed(Err("invalid tag length", fieldName))
        ELSE
        LET columnName == colPrefix \o tagProps[1]
            columnType == tagProps[2]
            f0 == [isZero |-> FALSE,
                   name |-> fieldName,
                   qdbName |-> columnName,
                   qdbType |-> columnType,
                   typ |-> fieldType.Type,
                   value |-> fieldValue,
                   valueSerialized |-> <<>>,
                   tagOptions |-> tagOptions]
            optErr == IF Len(tagProps) > 2
                      THEN ensureOptionsAreValid(SliceFrom(tagProps, 3))
                      ELSE NoErr
            made == IF Len(tagProps) > 2 /\ optErr = NoErr
                    THEN makeTagOptions(f0, SliceFrom(tagProps, 3))
                    ELSE [opts |-> tagOptions, err |-> NoErr]
            f == [f0 EXCEPT !.tagOptions = made.opts]
        IN  IF optErr # NoErr
            THEN Failed(Err("invalid tag", fieldName))
            ELSE IF made.err # NoErr
            THEN Failed(Err(made.err.kind, fieldName))
            ELSE IF columnType # Embedded /\ ~isValidAndSupportedQuestDBType(f.qdbType)
            THEN Failed(Err("unsupported qdb type", fieldName))
            ELSE IF columnType = Embedded /\ f.tagOptions.embeddedPrefix = <<>>
            THEN Failed(Err("embeddedPrefix is required", fieldName))
            ELSE IF columnType = Embedded
            THEN LET embeddedFields ==
                         structToFieldSliceFrom(f.name \o <<".">>, f.tagOptions.embeddedPrefix,
                             f.typ, IF IsValid(v) THEN v.fields[i] ELSE Invalid,
                             fieldValue.path, 1, <<>>)
                 IN  IF embeddedFields.panic \/ embeddedFields.err # NoErr
                     THEN embeddedFields
                     ELSE structToFieldSliceFrom(fieldPrefix, colPrefix, ty, val, path,
                              i + 1, fields \o embeddedFields.fields)
            ELSE structToFieldSliceFrom(fieldPrefix, colPrefix, ty, val, path,
                     i + 1, Append(fields, f))

structToFieldSlice(fieldPrefix, colPrefix, ty, val) ==
    structToFieldSliceFrom(fieldPrefix, colPrefix, ty, val, <<>>, 1, <<>>)

-----------------------------------------------------------------------------
(* Text of values.  A value's text is a sequence of one-character tokens.  *)

\* the printable ASCII characters, code 32 to 126
AsciiChars ==
    <<
      " ", "!", "\"", "#", "$", "%", "&", "'", "(", ")", "*", "+", ",", "-", ".", "/",
      "0", "1", "2", "3", "4", "5", "6", "7", "8", "9", ":", ";", "<", "=", ">", "?",
      "@", "A", "B", "C", "D", "E", "F", "G", "H", "I", "J", "K", "L", "M", "N", "O",
      "P", "Q", "R", "S", "T", "U", "V", "W", "X", "Y", "Z", "[", "<backslash>", "]", "^", "_",
      "<backtick>", "a", "b", "c", "d", "e", "f", "g", "h", "i", "j", "k", "l", "m", "n", "o",
      "p", "q", "r", "s", "t", "u", "v", "w", "x", "y", "z", "{", "|", "}", "~"
    >>

\* []byte(s) of a string of printable characters
AsciiOf(c) == 31 + (CHOOSE i \in 1..Len(AsciiChars) : AsciiChars[i] = c)
BytesOfString(s) == [i \in 1..Len(s) |-> AsciiOf(s[i])]

RECURSIVE Digits(_)
\* fmt's %d of a non-negative integer
Digits(n) == IF n < 10 THEN <<ToString(n)>> ELSE Digits(n \div 10) \o <<ToString(n % 10)>>

Quote(s) == <<"\"">> \o s \o <<"\"">>

\* the payloads of the strings of the example record
AhmadName == 1001
AhmadEmail == 1002

\* the string a payload stands for: "" for 0, the example's strings, "s<n>"
\* otherwise
StringOf(n) ==
    IF n = 0 THEN <<>>
    ELSE IF n = AhmadName THEN <<"A", "h", "m", "a", "d">>
    ELSE IF n = AhmadEmail THEN <<"a", "h", "m", "a", "d", "@", "x", ".", "i", "o">>
    ELSE <<"s">> \o Digits(n)

\* the byte slice a payload stands for: nil for 0, else the bytes 1 .. n+1
BytesOf(n) == [i \in 1..(IF n = 0 THEN 0 ELSE n + 1) |-> i]

\* fmt's %f of the float a payload stands for, n/2
FormatFloat(n) ==
    Digits(n \div 2) \o <<".">> \o
    (IF n % 2 = 1 THEN <<"5", "0", "0", "0", "0", "0">> ELSE <<"0", "0", "0", "0", "0", "0">>)

\* fmt's %c of a rune: one token standing for the character of that code
FormatRune(n) ==
    IF n >= 32 /\ n <= 126 THEN <<AsciiChars[n - 31]>> ELSE <<"U+" \o ToString(n)>>

\* a time.Time payload: 0 is the zero Time (year 1), n >= 1 is the instant
\* n*1500 nanoseconds after the Unix epoch
TimeStepNanos == 1500
UnixNano(n) == n * TimeStepNanos
TimeIsZero(n) == n = 0
\* time.Time.UnixMicro and UnixMilli, printed with %d; the zero Time lies
\* 62135596800 seconds before the epoch
UnixMicroText(n) ==
    IF TimeIsZero(n) THEN <<"-">> \o <<"6", "2", "1", "3", "5", "5", "9", "6", "8", "0", "0",
                                      "0", "0", "0", "0", "0", "0">>
    ELSE Digits(UnixNano(n) \div 1000)
UnixMilliText(n) ==
    IF TimeIsZero(n) THEN <<"-">> \o <<"6", "2", "1", "3", "5", "5", "9", "6", "8", "0", "0",
                                      "0", "0", "0">>
    ELSE Digits(UnixNano(n) \div 1000000)

\* the alphabet of base64.StdEncoding
B64Chars ==
    <<
      "A", "B", "C", "D", "E", "F", "G", "H", "I", "J", "K", "L", "M", "N", "O", "P",
      "Q", "R", "S", "T", "U", "V", "W", "X", "Y", "Z", "a", "b", "c", "d", "e", "f",
      "g", "h", "i", "j", "k", "l", "m", "n", "o", "p", "q", "r", "s", "t", "u", "v",
      "w", "x", "y", "z", "0", "1", "2", "3", "4", "5", "6", "7", "8", "9", "+", "/"
    >>
B64(i) == B64Chars[i + 1]

RECURSIVE EncodeToString(_)
\* base64.StdEncoding.EncodeToString
EncodeToString(b) ==
    IF Len(b) = 0 THEN <<>>
    ELSE IF Len(b) = 1
    THEN <<B64(b[1] \div 4), B64((b[1] % 4) * 16), "=", "=">>
    ELSE IF Len(b) = 2
    THEN <<B64(b[1] \div 4), B64((b[1] % 4) * 16 + b[2] \div 16), B64((b[2] % 16) * 4), "=">>
    ELSE <<B64(b[1] \div 4), B64((b[1] % 4) * 16 + b[2] \div 16),
           B64((b[2] % 16) * 4 + b[3] \div 64), B64(b[3] % 64)>>
         \o EncodeToString(SubSeq(b, 4, Len(b)))

\* json's text of a time.Time (RFC 3339 with nanoseconds, UTC)
RECURSIVE TrimZeros(_)
TrimZeros(d) == IF d # <<>> /\ d[Len(d)] = "0" THEN TrimZeros(SubSeq(d, 1, Len(d) - 1)) ELSE d
RECURSIVE PadLeft(_, _)
PadLeft(d, w) == IF Len(d) >= w THEN d ELSE PadLeft(<<"0">> \o d, w)
TimeText(n) ==
    IF TimeIsZero(n) THEN <<"0", "0", "0", "1", "-", "0", "1", "-", "0", "1", "T", "0", "0", ":", "0", "0", ":", "0", "0", "Z">>
    ELSE <<"1", "9", "7", "0", "-", "0", "1", "-", "0", "1", "T", "0", "0", ":", "0", "0", ":", "0">> \o Digits(UnixNano(n) \div 1000000000)
         \o (IF UnixNano(n) % 1000000000 = 0 THEN <<>>
             ELSE <<".">> \o TrimZeros(PadLeft(Digits(UnixNano(n) % 1000000000), 9)))
         \o <<"Z">>

RECURSIVE JsonText(_, _)
RECURSIVE JsonFields(_, _, _)
\* json.Marshal of a value of type ty, as text
JsonText(ty, val) ==
    IF val.ptr THEN (IF val.nil THEN <<"n", "u", "l", "l">> ELSE JsonText(TypeElem(ty), Elem(val)))
    ELSE CASE val.kind = "bool" -> IF val.v = 0 THEN <<"f", "a", "l", "s", "e">> ELSE <<"t", "r", "u", "e">>
           [] val.kind \in {"float32", "float64"} ->
                  Digits(val.v \div 2) \o (IF val.v % 2 = 1 THEN <<".", "5">> ELSE <<>>)
           [] val.kind = "string" -> Quote(StringOf(val.v))
           [] val.kind = "time" -> Quote(TimeText(val.v))
           [] val.kind \in {"Bytes", "[]byte"} ->
                  IF val.v = 0 THEN <<"n", "u", "l", "l">>
                  ELSE Quote(EncodeToString(BytesOf(val.v)))
           [] val.kind = "struct" -> <<"{">> \o JsonFields(ty, val, 1) \o <<"}">>
           [] OTHER -> Digits(val.v)
JsonFields(ty, val, i) ==
    IF i > Len(val.fields) THEN <<>>
    ELSE (IF i > 1 THEN <<",">> ELSE <<>>)
         \o Quote(ty.fields[i].Name) \o <<":">> \o JsonText(ty.fields[i].Type, val.fields[i])
         \o JsonFields(ty, val, i + 1)

-----------------------------------------------------------------------------
(* The type codec, src/types.go *)

Text(str) == [str |-> str, err |-> NoErr]
NotCompatible == [str |-> <<>>, err |-> Err("is not compatible with", <<>>)]

\* serializeValue(v, qdbType); v is a value of dynamic type ty
serializeValue(ty, v, qdbType) ==
    CASE qdbType = Boolean ->
            IF v.kind = "bool"
            THEN Text(IF v.v = 0 THEN <<"false">> ELSE <<"true">>)
            ELSE NotCompatible
      [] qdbType = Byte ->
            IF v.kind = "int8" THEN Text(Digits(v.v)) ELSE NotCompatible
      [] qdbType = Short ->
            IF v.kind \in {"uint8", "int8", "int16"}
            THEN Text(Digits(v.v) \o <<"i">>) ELSE NotCompatible
      [] qdbType = Char ->
            IF v.kind = "int32" THEN Text(FormatRune(v.v)) ELSE NotCompatible
      [] qdbType = Int ->
            IF v.kind \in {"uint8", "int8", "uint16", "int16", "int32"}
            THEN Text(Digits(v.v) \o <<"i">>) ELSE NotCompatible
      [] qdbType = Float ->
            IF v.kind = "float32" THEN Text(FormatFloat(v.v)) ELSE NotCompatible
      [] qdbType = Symbol ->
            IF v.kind = "string" THEN Text(StringOf(v.v)) ELSE NotCompatible
      [] qdbType = String ->
            IF v.kind = "string" THEN Text(Quote(StringOf(v.v))) ELSE NotCompatible
      [] qdbType = Long ->
            IF v.kind \in {"uint8", "int8", "uint16", "int16", "uint32", "int32", "int64", "int"}
            THEN Text(Digits(v.v) \o <<"i">>) ELSE NotCompatible
      [] qdbType = Date ->
            IF v.kind = "int64" THEN Text(Digits(v.v))
            ELSE IF v.kind = "time" THEN Text(UnixMilliText(v.v))
            ELSE NotCompatible
      [] qdbType = Timestamp ->
            IF v.kind = "int64" THEN Text(Digits(v.v) \o <<"t">>)
            ELSE IF v.kind = "time" THEN Text(UnixMicroText(v.v) \o <<"t">>)
            ELSE NotCompatible
      [] qdbType = Double ->
            IF v.kind \in {"float32", "float64"} THEN Text(FormatFloat(v.v)) ELSE NotCompatible
      [] qdbType = Binary ->
            IF v.kind \in {"Bytes", "[]byte"} THEN Text(Quote(EncodeToString(BytesOf(v.v))))
            ELSE IF v.kind = "string"
            THEN Text(Quote(EncodeToString(BytesOfString(StringOf(v.v)))))
            ELSE NotCompatible
      [] qdbType = JSON ->
            Text(Quote(EncodeToString(BytesOfString(JsonText(ty, v)))))
      [] OTHER -> NotCompatible

-----------------------------------------------------------------------------
(* The serialization pass, src/model.go *)

\* the reflect.Value a field holds, read from the storage root
FieldValue(root, f) == IF f.value.valid THEN Lookup(root, f.value.path) ELSE Invalid

RECURSIVE serializeFrom(_, _, _)
\* the loop of Model.serialize from field i on, over the field list fields
serializeFrom(fields, root, i) ==
    IF i > Len(fields) THEN [fields |-> fields, err |-> NoErr, panic |-> FALSE]
    ELSE
    LET field == fields[i]
        fv0 == FieldValue(root, field)
        fieldValue == IF fv0.ptr THEN Elem(fv0) ELSE fv0
        isZero == field.isZero \/ ~IsValid(fieldValue) \/ IsZero(fieldValue)
        marked == [fields EXCEPT ![i].isZero = isZero]
    IN  IF isZero /\ ~field.tagOptions.commitZeroValue
        THEN serializeFrom(marked, root, i + 1)
        ELSE IF ~IsValid(fieldValue)
        THEN \* reflect: call of reflect.Value.Interface on zero Value
             [fields |-> marked, err |-> NoErr, panic |-> TRUE]
        ELSE LET res == serializeValue(TypeElem(field.typ), fieldValue, field.qdbType)
             IN  IF res.err # NoErr
                 THEN [fields |-> marked, err |-> Err(res.err.kind, field.name), panic |-> FALSE]
                 ELSE serializeFrom([marked EXCEPT ![i].valueSerialized = res.str], root, i + 1)

\* the pass leaving only the fields that hold a non-zero value in the list
serialize_DropZero(fields, root) ==
    LET ser == serializeFrom(fields, root, 1)
    IN  [ser EXCEPT !.fields = SelectSeq(ser.fields, LAMBDA f : ~f.isZero)]

\* the pass appending each text to the text the field held before the pass
serialize_Accumulate(fields, root) ==
    LET ser == serializeFrom(fields, root, 1)
    IN  [ser EXCEPT !.fields =
            [i \in 1..Len(ser.fields) |->
                [ser.fields[i] EXCEPT !.valueSerialized =
                    fields[i].valueSerialized \o ser.fields[i].valueSerialized]]]

serialize(fields, root) == serializeFrom(fields, root, 1)

-----------------------------------------------------------------------------
(* Table name, src/model.go *)

IsUpper(c) == \E i \in 34..59 : AsciiChars[i] = c
IsLower(c) == \E i \in 66..91 : AsciiChars[i] = c
IsDigit(c) == \E i \in 17..26 : AsciiChars[i] = c
ToLower(c) == IF IsUpper(c) THEN AsciiChars[AsciiOf(c) + 32 - 31] ELSE c

RECURSIVE LowerRun(_, _)
\* the last index of the run of lower-case letters that starts at j
LowerRun(s, j) == IF j <= Len(s) /\ IsLower(s[j]) THEN LowerRun(s, j + 1) ELSE j - 1

RECURSIVE matchFirstCap(_, _)
\* matchFirstCap.ReplaceAllString(str, "${1}_${2}") for (.)([A-Z][a-z]+), from index i
matchFirstCap(s, i) ==
    IF i > Len(s) THEN <<>>
    ELSE IF i + 2 <= Len(s) /\ IsUpper(s[i + 1]) /\ IsLower(s[i + 2])
         THEN <<s[i], "_">> \o SubSeq(s, i + 1, LowerRun(s, i + 2))
              \o matchFirstCap(s, LowerRun(s, i + 2) + 1)
         ELSE <<s[i]>> \o matchFirstCap(s, i + 1)

RECURSIVE matchAllCap(_, _)
\* matchAllCap.ReplaceAllString(snake, "${1}_${2}") for ([a-z0-9])([A-Z]), from index i
matchAllCap(s, i) ==
    IF i > Len(s) THEN <<>>
    ELSE IF i + 1 <= Len(s) /\ (IsLower(s[i]) \/ IsDigit(s[i])) /\ IsUpper(s[i + 1])
         THEN <<s[i], "_", s[i + 1]>> \o matchAllCap(s, i + 2)
         ELSE <<s[i]>> \o matchAllCap(s, i + 1)

\* the type name taken as it is
toSnakeCase_AsIs(str) == str

toSnakeCase(str) ==
    LET snake == matchAllCap(matchFirstCap(str, 1), 1)
    IN  [i \in 1..Len(snake) |-> ToLower(snake[i])]

-----------------------------------------------------------------------------
(* CreateTableOptions and the Model, src/model.go *)

\* CreateTableOptions.String
CreateTableOptionsString(c) ==
    (IF c.PartitionBy # <<>>
     THEN <<"PARTITION", " ", "BY", " ">> \o c.PartitionBy \o <<" ">>
     ELSE <<>>)
    \o (IF c.MaxUncommittedRows # 0
        THEN <<"WITH", " ", "maxUncommittedRows", "=">> \o Digits(c.MaxUncommittedRows) \o <<" ">>
        ELSE <<>>)
    \o (IF c.CommitLag # <<>>
        THEN (IF c.MaxUncommittedRows # 0 THEN <<",", " ">> ELSE <<>>)
             \o <<"commitLag", "=">> \o c.CommitLag \o <<" ">>
        ELSE <<>>)

NoModel == [tableName |-> <<>>, fields |-> <<>>, indexFields |-> <<>>, designatedTS |-> 0,
            val |-> [byPtr |-> FALSE, copy |-> Invalid],
            createTableOptions |-> [has |-> FALSE, opts |-> <<>>]]

\* the storage the reflect.Values of m read: the caller's record when NewModel
\* was given a pointer, the copy NewModel was given otherwise
Root(m, record) == IF m.val.byPtr THEN record ELSE m.val.copy

RECURSIVE scanFields_LastWins(_, _, _, _)
\* the loop of NewModel without the check for a second designated timestamp
scanFields_LastWins(fields, i, designatedTS, indexFields) ==
    IF i > Len(fields)
    THEN [designatedTS |-> designatedTS, indexFields |-> indexFields, multiple |-> FALSE]
    ELSE scanFields_LastWins(fields, i + 1,
             IF fields[i].tagOptions.designatedTS THEN i ELSE designatedTS,
             IF fields[i].tagOptions.index THEN Append(indexFields, i) ELSE indexFields)

RECURSIVE scanFields(_, _, _, _)
\* the loop of NewModel over the fields, from field i on: the index of the
\* designated timestamp field (0 for nil), the indexed fields, and whether a
\* second designated timestamp field was found
scanFields(fields, i, designatedTS, indexFields) ==
    IF i > Len(fields)
    THEN [designatedTS |-> designatedTS, indexFields |-> indexFields, multiple |-> FALSE]
    ELSE IF fields[i].tagOptions.designatedTS /\ designatedTS # 0
    THEN [designatedTS |-> designatedTS, indexFields |-> indexFields, multiple |-> TRUE]
    ELSE scanFields(fields, i + 1,
             IF fields[i].tagOptions.designatedTS THEN i ELSE designatedTS,
             IF fields[i].tagOptions.index THEN Append(indexFields, i) ELSE indexFields)

\* NewModel(a): a is the record (ptr FALSE) or a pointer to it (ptr TRUE)
NewModel(ty, record, ptr) ==
    IF ty.kind # "struct"
    THEN [pc |-> "error", model |-> NoModel, err |-> Err("only structs allowed", <<>>)]
    ELSE
    LET tableName == IF ty.tableNamer.has THEN ty.tableNamer.name
                     ELSE toSnakeCase(ty.name) \o <<"s">>
        sl == structToFieldSlice(<<>>, <<>>, ty, record)
        sc == scanFields(sl.fields, 1, 0, <<>>)
        ser == serialize(sl.fields, record)
        m == [tableName |-> tableName,
              fields |-> ser.fields,
              indexFields |-> sc.indexFields,
              designatedTS |-> sc.designatedTS,
              val |-> [byPtr |-> ptr, copy |-> IF ptr THEN Invalid ELSE record],
              createTableOptions |-> ty.createTableOptioner]
    IN  IF sl.panic THEN [pc |-> "panic", model |-> NoModel, err |-> NoErr]
        ELSE IF sl.err # NoErr
        THEN [pc |-> "error", model |-> NoModel,
              err |-> Err("could not parse field: " \o sl.err.kind, sl.err.field)]
        ELSE IF sc.multiple
        THEN [pc |-> "error", model |-> NoModel,
              err |-> Err("multiple designated timestamp fields found", <<>>)]
        ELSE IF ser.panic THEN [pc |-> "panic", model |-> NoModel, err |-> NoErr]
        ELSE IF ser.err # NoErr THEN [pc |-> "error", model |-> NoModel, err |-> ser.err]
        ELSE [pc |-> "modelled", model |-> m, err |-> NoErr]

RECURSIVE ColumnsFrom(_, _)
ColumnsFrom(fields, i) ==
    IF i > Len(fields) THEN <<>>
    ELSE fields[i].qdbName \o (IF i # Len(fields) THEN <<", ">> ELSE <<>>)
         \o ColumnsFrom(fields, i + 1)

\* Model.Columns
Columns(m) == ColumnsFrom(m.fields, 1)

-----------------------------------------------------------------------------
(* Scan destinations, src/model.go and src/sql.go *)

RECURSIVE Addressable(_, _, _)
\* reflect's CanAddr of the Value at path: a Value reached through Elem of a
\* pointer is addressable, and so is a field of an addressable struct
Addressable(ty, path, addr) ==
    IF path = <<>> THEN addr
    ELSE Addressable(ty.fields[Head(path)].Type, Tail(path), addr \/ ty.ptr)

\* v.(Scanner) for v of type *ty: Level is a string type whose pointer has
\* the method QDBScan; the method set of **Level is empty
ImplementsScanner(ty) == ty.kind = "Level" /\ ~ty.ptr

\* Model.destinations without the proxy
RECURSIVE destinationsFrom_Bare(_, _, _, _)
destinationsFrom_Bare(m, ty, i, addrs) ==
    IF i > Len(m.fields) THEN [addrs |-> addrs, panic |-> FALSE]
    ELSE LET field == m.fields[i]
         IN  IF ~field.value.valid \/ ~Addressable(ty, field.value.path, m.val.byPtr)
             THEN [addrs |-> addrs, panic |-> TRUE]
             ELSE destinationsFrom_Bare(m, ty, i + 1,
                      Append(addrs, [path |-> field.value.path, proxy |-> FALSE]))

RECURSIVE destinationsFrom(_, _, _, _)
\* the loop of Model.destinations from field i on; an entry is the address of
\* the storage at path, behind an intermediate when proxy is TRUE.
\* reflect.Value.Addr panics on the zero Value and on an unaddressable one
destinationsFrom(m, ty, i, addrs) ==
    IF i > Len(m.fields) THEN [addrs |-> addrs, panic |-> FALSE]
    ELSE LET field == m.fields[i]
         IN  IF ~field.value.valid \/ ~Addressable(ty, field.value.path, m.val.byPtr)
             THEN [addrs |-> addrs, panic |-> TRUE]
             ELSE destinationsFrom(m, ty, i + 1,
                      Append(addrs, [path |-> field.value.path,
                                     proxy |-> ImplementsScanner(field.typ)]))

\* m.destinations(), m a Model of a record of type ty
destinations(m, ty) == destinationsFrom(m, ty, 1, <<>>)

\* (*intermediate).Scan(src): the call it makes on its Scanner v and what it
\* returns; qdbScan is v's QDBScan, from a source value to whether it
\* returns nil
Scan(v, src, qdbScan) ==
    [recv |-> v, via |-> "QDBScan", src |-> src, arg |-> src, res |-> qdbScan[src],
     ret |-> qdbScan[src]]

\* database/sql's convertAssign into a destination that is no sql.Scanner
convertAssign(v, src) ==
    [recv |-> v, via |-> "convertAssign", src |-> src, arg |-> src, res |-> TRUE, ret |-> TRUE]

\* the first half of ScanInto, r being what NewModel(dest) returned and d
\* what m.destinations() returned
boundTo(r, d) ==
    IF d.panic THEN [pc |-> "panic", model |-> r.model, err |-> NoErr, addrs |-> <<>>]
    ELSE [pc |-> "bound", model |-> r.model, err |-> NoErr, addrs |-> d.addrs]
bound(r, ty) ==
    IF r.pc = "panic" THEN [pc |-> "panic", model |-> NoModel, err |-> NoErr, addrs |-> <<>>]
    ELSE IF r.pc = "error"
    THEN [pc |-> "error", model |-> NoModel,
          err |-> Err("could not make model from dest: " \o r.err.kind, r.err.field),
          addrs |-> <<>>]
    ELSE boundTo(r, destinations(r.model, ty))

\* whether row.Scan returned nil after these calls
returned(calls) == calls = <<>> \/ calls[Len(calls)].ret

RECURSIVE rowScan(_, _, _, _, _)
\* row.Scan(dest...): the columns of the row are handed to the destinations
\* in order, up to the first one that returns an error
rowScan(ds, row, qdbScan, i, calls) ==
    IF i > Len(ds) THEN calls
    ELSE LET made == IF ds[i].proxy THEN Scan(ds[i].path, row[i], qdbScan)
                     ELSE convertAssign(ds[i].path, row[i])
         IN  IF made.ret THEN rowScan(ds, row, qdbScan, i + 1, Append(calls, made))
             ELSE Append(calls, made)

-----------------------------------------------------------------------------
(* The line protocol encoder, src/model.go *)

\* Kept without the commitZeroValue conjunct
Kept_AnyZero(field) == ~field.isZero \/ field.isZero

\* the fields a section keeps: non-zero, or zero with commitZeroValue
Kept(field) == ~field.isZero \/ (field.isZero /\ field.tagOptions.commitZeroValue)

Pair(field) == field.qdbName \o <<"=">> \o field.valueSerialized

RECURSIVE joinSymbols(_, _)
\* the second loop of buildSymbols; n counts the fields written
joinSymbols(fields, n) ==
    IF n >= Len(fields) THEN <<>>
    ELSE Pair(fields[n + 1])
         \o (IF n # Len(fields) - 1 THEN <<",">> ELSE <<>>)
         \o joinSymbols(fields, n + 1)

buildSymbols(m) ==
    IF Len(m.fields) = 0 THEN <<>>
    ELSE joinSymbols(SelectSeq(m.fields, LAMBDA field : field.qdbType = Symbol /\ Kept(field)), 0)

RECURSIVE joinColumns(_, _, _)
\* the second loop of buildColumns at field i, with the counter n
joinColumns(fields, i, n) ==
    IF i > Len(fields) THEN <<>>
    ELSE IF fields[i].tagOptions.designatedTS
    THEN joinColumns(fields, i + 1, n)
    ELSE Pair(fields[i])
         \o (IF n # Len(fields) - 1 THEN <<",">> ELSE <<>>)
         \o joinColumns(fields, i + 1, n + 1)

buildColumns(m) ==
    IF Len(m.fields) = 0 THEN <<>>
    ELSE joinColumns(SelectSeq(m.fields, LAMBDA field : field.qdbType # Symbol /\ Kept(field)),
                     1, IF m.designatedTS # 0 THEN 1 ELSE 0)

\* buildTimestamp printing the microseconds of the time
buildTimestamp_Micros(m, root) ==
    IF m.designatedTS # 0 /\ IsValid(FieldValue(root, m.fields[m.designatedTS]))
    THEN LET v == FieldValue(root, m.fields[m.designatedTS])
         IN  IF ~v.ptr /\ v.kind = "time" /\ ~TimeIsZero(v.v)
             THEN UnixMicroText(v.v)
             ELSE <<>>
    ELSE <<>>

buildTimestamp(m, root) ==
    IF m.designatedTS # 0 /\ IsValid(FieldValue(root, m.fields[m.designatedTS]))
    THEN LET v == FieldValue(root, m.fields[m.designatedTS])
         IN  IF ~v.ptr /\ v.kind = "time" /\ ~TimeIsZero(v.v)
             THEN Digits(UnixNano(v.v))
             ELSE <<>>
    ELSE <<>>

\* MarshalLine writing the space of the column section whether or not the
\* section is empty
MarshalLine_ColumnSpace(m, root) ==
    LET symbolsString == buildSymbols(m)
        columnsString == buildColumns(m)
        timestampString == buildTimestamp(m, root)
    IN  m.tableName
        \o (IF symbolsString # <<>> THEN <<",">> \o symbolsString ELSE <<>>)
        \o <<" ">> \o columnsString
        \o (IF timestampString # <<>> THEN <<" ">> \o timestampString ELSE <<>>)
        \o <<"\n">>

\* Model.MarshalLine after its call of serialize: m holds the fields as
\* serialize left them
MarshalLine(m, root) ==
    LET symbolsString == buildSymbols(m)
        columnsString == buildColumns(m)
        timestampString == buildTimestamp(m, root)
    IN  m.tableName
        \o (IF symbolsString # <<>> THEN <<",">> \o symbolsString ELSE <<>>)
        \o (IF columnsString # <<>> THEN <<" ">> \o columnsString ELSE <<>>)
        \o (IF timestampString # <<>> THEN <<" ">> \o timestampString ELSE <<>>)
        \o <<"\n">>

-----------------------------------------------------------------------------
(* The DDL generator, src/model.go *)

RECURSIVE columnDefinitions_Declared(_, _)
\* the column definitions with every column type as it was declared
columnDefinitions_Declared(fields, i) ==
    IF i > Len(fields) THEN <<>>
    ELSE <<"\"">> \o fields[i].qdbName \o <<"\" ">> \o fields[i].qdbType
         \o (IF i # Len(fields) THEN <<", ">> ELSE <<>>)
         \o columnDefinitions_Declared(fields, i + 1)

RECURSIVE columnDefinitions(_, _)
columnDefinitions(fields, i) ==
    IF i > Len(fields) THEN <<>>
    ELSE LET qdbType == IF fields[i].qdbType = Binary \/ fields[i].qdbType = JSON
                        THEN String ELSE fields[i].qdbType
         IN  <<"\"">> \o fields[i].qdbName \o <<"\" ">> \o qdbType
             \o (IF i # Len(fields) THEN <<", ">> ELSE <<>>)
             \o columnDefinitions(fields, i + 1)

RECURSIVE indexClauses(_, _, _)
indexClauses(m, indexFields, i) ==
    IF i > Len(indexFields) THEN <<>>
    ELSE <<"index(">> \o m.fields[indexFields[i]].qdbName \o <<")">>
         \o (IF i # Len(indexFields) THEN <<", ">> ELSE <<" ">>)
         \o indexClauses(m, indexFields, i + 1)

CreateTableIfNotExistStatement(m) ==
    <<"CREATE TABLE IF NOT EXISTS \"">> \o m.tableName \o <<"\" ( ">>
    \o columnDefinitions(m.fields, 1)
    \o (IF m.designatedTS = 0 THEN <<", \"timestamp\" timestamp">> ELSE <<>>)
    \o <<" ) ">>
    \o (IF Len(m.indexFields) > 0 THEN <<", ">> \o indexClauses(m, m.indexFields, 1) ELSE <<>>)
    \o (IF m.designatedTS = 0
        THEN <<"timestamp(timestamp) ">>
        ELSE <<"timestamp(">> \o m.fields[m.designatedTS].qdbName \o <<") ">>)
    \o (IF m.createTableOptions.has
        THEN CreateTableOptionsString(m.createTableOptions.opts)
        ELSE <<>>)
    \o <<";">>

-----------------------------------------------------------------------------
(* The client, src/client.go and src/main/main.go *)

\* WithTableName(tableName)
WithTableName(tableName) == [tableName |-> tableName]

RECURSIVE withOptions_EmptyToo(_, _, _)
\* the loop over the options setting the table name from every option
withOptions_EmptyToo(m, options, i) ==
    IF i > Len(options) THEN m
    ELSE withOptions_EmptyToo([m EXCEPT !.tableName = options[i].tableName], options, i + 1)

RECURSIVE withOptions(_, _, _)
\* the loop over the options of Write, WriteBatch and CreateTableIfNotExists,
\* from option i on
withOptions(m, options, i) ==
    IF i > Len(options) THEN m
    ELSE withOptions(IF options[i].tableName # <<>>
                     THEN [m EXCEPT !.tableName = options[i].tableName]
                     ELSE m,
                     options, i + 1)

\* m.MarshalLine() of a model of the record root
marshalled(m, root) ==
    LET ser == serialize(m.fields, root)
    IN  [panic |-> ser.panic, text |-> MarshalLine([m EXCEPT !.fields = ser.fields], root)]

RECURSIVE buildModels(_, _, _, _, _, _)
RECURSIVE addModel(_, _, _, _, _, _, _)
\* the first loop of WriteBatch from row i on: the models of the rows, or
\* the error of the first row NewModel refuses
buildModels(ty, rows, ptr, options, i, models) ==
    IF i > Len(rows) THEN [models |-> models, err |-> NoErr, panic |-> FALSE]
    ELSE addModel(NewModel(ty, rows[i], ptr), ty, rows, ptr, options, i, models)
\* the body of that loop, r being what NewModel(row) returned
addModel(r, ty, rows, ptr, options, i, models) ==
    IF r.pc = "panic" THEN [models |-> models, err |-> NoErr, panic |-> TRUE]
    ELSE IF r.pc = "error" THEN [models |-> models, err |-> r.err, panic |-> FALSE]
    ELSE buildModels(ty, rows, ptr, options, i + 1,
             Append(models, withOptions(r.model, options, 1)))

RECURSIVE writeLines(_, _, _)
\* the second loop of WriteBatch: sb.Write(m.MarshalLine()) for every model
writeLines(models, rows, i) ==
    IF i > Len(models) THEN [panic |-> FALSE, text |-> <<>>]
    ELSE LET l == marshalled(models[i], rows[i])
             rest == writeLines(models, rows, i + 1)
         IN  [panic |-> l.panic \/ rest.panic, text |-> l.text \o rest.text]

\* the end of Write and WriteBatch: the payload l handed to ilpConn.Write
sendPayload(l, ok) ==
    IF l.panic THEN [pc |-> "panic", err |-> NoErr, sent |-> <<>>]
    ELSE [pc |-> IF ok THEN "written" ELSE "error",
          err |-> IF ok THEN NoErr ELSE Err("ilpConn.Write", <<>>),
          sent |-> <<l.text>>]

\* Write after its call of NewModel, which returned r
writeModel(r, a, options, ok) ==
    IF r.pc = "panic" THEN [pc |-> "panic", err |-> NoErr, sent |-> <<>>]
    ELSE IF r.pc = "error" THEN [pc |-> "error", err |-> r.err, sent |-> <<>>]
    ELSE sendPayload(marshalled(withOptions(r.model, options, 1), a), ok)

\* Client.Write(a, options...): what it returns and what it sends
Write(ty, a, ptr, options, ok) == writeModel(NewModel(ty, a, ptr), a, options, ok)

\* WriteBatch after its first loop, which returned b
writeBatch(b, rows, ok) ==
    IF b.panic THEN [pc |-> "panic", err |-> NoErr, sent |-> <<>>]
    ELSE IF b.err # NoErr THEN [pc |-> "error", err |-> b.err, sent |-> <<>>]
    ELSE sendPayload(writeLines(b.models, rows, 1), ok)

\* Client.WriteBatch(rows, options...)
WriteBatch(ty, rows, ptr, options, ok) ==
    writeBatch(buildModels(ty, rows, ptr, options, 1, <<>>), rows, ok)

\* CreateTableIfNotExists after its call of NewModel, which returned r
createTable(r, options, ok) ==
    IF r.pc = "panic" THEN [pc |-> "panic", err |-> NoErr, sent |-> <<>>]
    ELSE IF r.pc = "error"
    THEN [pc |-> "error", err |-> Err("could not make new model: " \o r.err.kind, r.err.field),
          sent |-> <<>>]
    ELSE [pc |-> IF ok THEN "created" ELSE "error",
          err |-> IF ok THEN NoErr ELSE Err("could not execute sql statement", <<>>),
          sent |-> <<CreateTableIfNotExistStatement(withOptions(r.model, options, 1))>>]

\* Client.CreateTableIfNotExists(v, options...)
CreateTableIfNotExists(ty, v, ptr, options, ok) == createTable(NewModel(ty, v, ptr), options, ok)

-----------------------------------------------------------------------------
(* The record types and records the model ranges over *)

Leaf(kind, ptr) == [kind |-> kind, ptr |-> ptr, fields |-> <<>>]
Struct(fields, ptr) == [kind |-> "struct", ptr |-> ptr, fields |-> fields]

\* the annotation <name>;<type>[;key:value ...]
RECURSIVE OptionText(_)
OptionText(opts) ==
    IF opts = <<>> THEN <<>>
    ELSE <<";">> \o Head(opts)[1] \o <<":">> \o Head(opts)[2] \o OptionText(Tail(opts))
Annotation(name, qdbType, opts) == name \o <<";">> \o qdbType \o OptionText(opts)

DesignatedTS == <<(<<"designatedTS">>), (<<"true">>)>>
CommitZeroValue == <<(<<"commitZeroValue">>), (<<"true">>)>>
Index == <<(<<"index">>), (<<"true">>)>>
EmbeddedPrefix(p) == <<(<<"embeddedPrefix">>), p>>

\* the i-th field of a struct is named F<i> and annotated with column c<i>
FieldName(i) == <<"F">> \o Digits(i)
ColumnName(i) == <<"c">> \o Digits(i)

\* the embeddedPrefix of the i-th field of a struct is p<i>_
PrefixName(i) == <<"p">> \o Digits(i) \o <<"_">>

\* a field declaration: Go type, column type and options, or a raw annotation;
\* EmbeddedDecl is an embedded field that declares its embeddedPrefix
Decl(ty, qdbType, opts) ==
    [ty |-> ty, qdbType |-> qdbType, opts |-> opts, prefixed |-> FALSE, raw |-> FALSE, tag |-> <<>>]
EmbeddedDecl(ty) ==
    [ty |-> ty, qdbType |-> Embedded, opts |-> <<>>, prefixed |-> TRUE, raw |-> FALSE, tag |-> <<>>]
RawDecl(ty, tag) ==
    [ty |-> ty, qdbType |-> <<>>, opts |-> <<>>, prefixed |-> FALSE, raw |-> TRUE, tag |-> tag]

StructField(i, d) ==
    [Name |-> FieldName(i),
     Tag |-> IF d.raw THEN d.tag
             ELSE Annotation(ColumnName(i), d.qdbType,
                      IF d.prefixed THEN <<EmbeddedPrefix(PrefixName(i))>> ELSE d.opts),
     Type |-> d.ty]

StructFields(decls) == [i \in 1..Len(decls) |-> StructField(i, decls[i])]

\* type Inner struct { F1 string `qdb:"c1;string"` }
InnerT(ptr) == Struct(StructFields(<<Decl(Leaf("string", FALSE), String, <<>>)>>), ptr)
\* type InnerTS struct { F1 time.Time `qdb:"c1;timestamp;designatedTS:true"` }
InnerTST == Struct(StructFields(<<Decl(Leaf("time", FALSE), Timestamp, <<DesignatedTS>>)>>), FALSE)
\* type Mid struct { F1 Inner `qdb:"c1;embedded;embeddedPrefix:p1_"` }
MidT == Struct(StructFields(<<EmbeddedDecl(InnerT(FALSE))>>), FALSE)

\* type BadInner struct { F1 string `qdb:"c1;long256"` }
BadInnerT(ptr) == Struct(StructFields(<<Decl(Leaf("string", FALSE), Long256, <<>>)>>), ptr)
\* type MidBad struct { F1 BadInner `qdb:"c1;embedded;embeddedPrefix:p1_"` }
MidBadT == Struct(StructFields(<<EmbeddedDecl(BadInnerT(FALSE))>>), FALSE)
\* type MidBare struct { F1 Inner `qdb:"c1;embedded"` }
MidBareT == Struct(StructFields(<<Decl(InnerT(FALSE), Embedded, <<>>)>>), FALSE)

\* field declarations whose rendering in the line is of interest
LineDecls ==
    { Decl(Leaf("string", FALSE), String, <<>>),
      Decl(Leaf("string", FALSE), Symbol, <<>>),
      Decl(Leaf("string", TRUE), String, <<CommitZeroValue>>),
      Decl(Leaf("string", FALSE), Symbol, <<CommitZeroValue>>),
      Decl(Leaf("int", FALSE), Long, <<>>),
      Decl(Leaf("time", FALSE), Timestamp, <<DesignatedTS>>),
      Decl(Leaf("int64", FALSE), Timestamp, <<DesignatedTS>>),
      Decl(Leaf("time", TRUE), Timestamp, <<DesignatedTS>>) }

\* field declarations whose effect on the schema is of interest
SchemaDecls ==
    { Decl(Leaf("string", FALSE), String, <<>>),
      Decl(Leaf("string", FALSE), Symbol, <<Index>>),
      Decl(Leaf("time", FALSE), Timestamp, <<DesignatedTS>>),
      Decl(Leaf("string", FALSE), String, <<DesignatedTS>>),
      EmbeddedDecl(InnerT(FALSE)),
      EmbeddedDecl(InnerT(TRUE)),
      EmbeddedDecl(InnerTST),
      EmbeddedDecl(MidT),
      Decl(InnerT(FALSE), Embedded, <<>>),
      RawDecl(Leaf("string", FALSE), <<"-">>) }

\* field declarations that schema derivation refuses, beside one it accepts
RejectDecls ==
    { Decl(Leaf("string", FALSE), String, <<>>),
      Decl(Leaf("string", FALSE), Long256, <<>>),
      Decl(Leaf("string", FALSE), Geohash, <<>>),
      Decl(Leaf("string", FALSE), <<"varchar">>, <<>>),
      Decl(InnerT(FALSE), Embedded, <<>>),
      Decl(InnerT(FALSE), Embedded, <<EmbeddedPrefix(<<>>)>>),
      EmbeddedDecl(BadInnerT(TRUE)),
      EmbeddedDecl(MidBadT),
      EmbeddedDecl(MidBareT) }

\* field declarations for the type codec: kinds the declared type accepts
\* and kinds it does not; binary and json columns
CodecDecls ==
    { Decl(Leaf("string", FALSE), String, <<>>),
      Decl(Leaf("string", FALSE), Int, <<>>),
      Decl(Leaf("string", TRUE), Int, <<CommitZeroValue>>),
      Decl(Leaf("Bytes", FALSE), Binary, <<>>),
      Decl(Leaf("string", FALSE), Binary, <<>>),
      Decl(Leaf("[]byte", FALSE), Binary, <<>>),
      Decl(Leaf("string", FALSE), JSON, <<>>),
      Decl(Leaf("int", FALSE), JSON, <<>>),
      Decl(InnerT(FALSE), JSON, <<>>) }

\* field declarations of a record that is scanned into: Level is a string
\* type with the method (*Level).QDBScan
ScanDecls ==
    { Decl(Leaf("string", FALSE), String, <<>>),
      Decl(Leaf("Level", FALSE), String, <<>>),
      Decl(Leaf("Level", TRUE), String, <<>>),
      RawDecl(Leaf("string", FALSE), <<"-">>),
      EmbeddedDecl(InnerT(FALSE)),
      EmbeddedDecl(InnerT(TRUE)) }

\* field declarations of records compared instance against instance
InstanceDecls ==
    { Decl(Leaf("string", FALSE), String, <<>>),
      EmbeddedDecl(InnerT(FALSE)),
      EmbeddedDecl(InnerT(TRUE)),
      EmbeddedDecl(MidT) }

\* sequences of 1 .. n declarations drawn from a set
\* *User inside the declaration of User: a pointer to the record type being
\* modelled
SelfT == Leaf("self", TRUE)
\* type Back struct { F1 *User `qdb:"c1;embedded;embeddedPrefix:p1_"` }
BackT == Struct(StructFields(<<EmbeddedDecl(SelfT)>>), FALSE)

\* field declarations that send the schema walk into embedded records,
\* the record type itself among them
WalkDecls ==
    { Decl(Leaf("string", FALSE), String, <<>>),
      Decl(Leaf("string", FALSE), Long256, <<>>),
      RawDecl(SelfT, <<"-">>),
      EmbeddedDecl(InnerT(FALSE)),
      EmbeddedDecl(InnerT(TRUE)),
      EmbeddedDecl(MidT),
      EmbeddedDecl(SelfT),
      EmbeddedDecl(BackT) }

\* the integer kinds of Go, and a field of each under each integer column
\* type, a zero value committed or not
IntegerKinds ==
    {"int8", "int16", "int32", "int64", "int", "uint8", "uint16", "uint32", "uint64", "uint"}
IntegerColumns == {Byte, Short, Int, Long}
IntegerDecls ==
    {Decl(Leaf(k, FALSE), q, opts) :
        k \in IntegerKinds, q \in IntegerColumns, opts \in {<<>>, <<CommitZeroValue>>}}

RECURSIVE DeclSeqs(_, _)
DeclSeqs(decls, n) ==
    IF n = 0 THEN {<<>>}
    ELSE {<<>>} \cup {<<d>> \o t : d \in decls, t \in DeclSeqs(decls, n - 1)}

\* the named record types: User has no capability, ActiveUser names its
\* table and gives table options (as in the example program)
UserT(fields) ==
    [kind |-> "struct", ptr |-> FALSE, fields |-> fields,
     name |-> <<"U", "s", "e", "r">>,
     tableNamer |-> [has |-> FALSE, name |-> <<>>],
     createTableOptioner |-> [has |-> FALSE, opts |-> <<>>]]
ActiveUserT(fields) ==
    [kind |-> "struct", ptr |-> FALSE, fields |-> fields,
     name |-> <<"A", "c", "t", "i", "v", "e", "U", "s", "e", "r">>,
     tableNamer |-> [has |-> TRUE, name |-> <<"a", "u">>],
     createTableOptioner |->
         [has |-> TRUE,
          opts |-> [PartitionBy |-> <<"DAY">>, MaxUncommittedRows |-> 40000,
                    CommitLag |-> <<"240s">>]]]

IntegerTypes == {UserT(StructFields(<<d>>)) : d \in IntegerDecls}
\* the values of CreateTableOptions: a partition strategy or none,
\* maxUncommittedRows set or 0, commitLag set or empty
OptionValues ==
    {[PartitionBy |-> p, MaxUncommittedRows |-> n, CommitLag |-> l] :
        p \in {<<>>, <<"NONE">>, <<"YEAR">>, <<"MONTH">>, <<"DAY">>},
        n \in {0, 40000},
        l \in {<<>>, <<"240s">>}}
\* record types that give table options, with and without a designated
\* timestamp field
OptionTypes ==
    {[ActiveUserT(StructFields(<<d>>)) EXCEPT !.createTableOptioner.opts = o] :
        d \in {Decl(Leaf("string", FALSE), String, <<>>),
               Decl(Leaf("time", FALSE), Timestamp, <<DesignatedTS>>)},
        o \in OptionValues}
WalkTypes ==
    {UserT(StructFields(ds)) : ds \in DeclSeqs(WalkDecls, MaxFields) \ {<<>>}}
LineTypes ==
    {UserT(StructFields(ds)) : ds \in DeclSeqs(LineDecls, MaxFields) \ {<<>>}}
    \cup {ActiveUserT(StructFields(<<Decl(Leaf("string", FALSE), Symbol, <<>>), d,
                                      Decl(Leaf("time", FALSE), Timestamp, <<DesignatedTS>>)>>)) :
             d \in LineDecls}
SchemaTypes ==
    {UserT(StructFields(ds)) : ds \in DeclSeqs(SchemaDecls, MaxFields) \ {<<>>}}
RejectTypes ==
    {UserT(StructFields(ds)) : ds \in DeclSeqs(RejectDecls, MaxFields) \ {<<>>}}
CodecTypes ==
    {UserT(StructFields(ds)) : ds \in DeclSeqs(CodecDecls, MaxFields) \ {<<>>}}
InstanceTypes ==
    {UserT(StructFields(ds)) : ds \in DeclSeqs(InstanceDecls, MaxFields) \ {<<>>}}
ScanTypes ==
    {UserT(StructFields(ds)) : ds \in DeclSeqs(ScanDecls, MaxFields) \ {<<>>}}
\* the records the caller assigns to have two fields
AssignTypes == {UserT(StructFields(<<d1, d2>>)) : d1 \in LineDecls, d2 \in LineDecls}

\* type User struct { Name string `qdb:"Name;string"`; Email string
\* `qdb:"Email;symbol"`; Age <integer kind> `qdb:"Age;int"` }
ScenarioTypes ==
    {UserT(<<[Name |-> <<"Name">>, Tag |-> Annotation(<<"Name">>, String, <<>>),
              Type |-> Leaf("string", FALSE)],
             [Name |-> <<"Email">>, Tag |-> Annotation(<<"Email">>, Symbol, <<>>),
              Type |-> Leaf("string", FALSE)],
             [Name |-> <<"Age">>, Tag |-> Annotation(<<"Age">>, Int, <<>>),
              Type |-> Leaf(k, FALSE)]>>) :
        k \in {"uint8", "int8", "uint16", "int16", "int32", "int", "int64"}}

\* User{Name: "Ahmad", Email: "ahmad@x.io", Age: 29}, and the records with
\* some of the three left zero
ScenarioRecords(ty) ==
    {[kind |-> "struct", ptr |-> FALSE, nil |-> FALSE, v |-> 0,
      fields |-> <<[kind |-> "string", ptr |-> FALSE, nil |-> FALSE, v |-> n, fields |-> <<>>],
                   [kind |-> "string", ptr |-> FALSE, nil |-> FALSE, v |-> m, fields |-> <<>>],
                   [kind |-> ty.fields[3].Type.kind, ptr |-> FALSE, nil |-> FALSE, v |-> a,
                    fields |-> <<>>]>>] :
        n \in {0, AhmadName}, m \in {0, AhmadEmail}, a \in {0, 29}}

\* type PageView struct: a record type with neither capability
PageViewT(fields) ==
    [kind |-> "struct", ptr |-> FALSE, fields |-> fields,
     name |-> <<"P", "a", "g", "e", "V", "i", "e", "w">>,
     tableNamer |-> [has |-> FALSE, name |-> <<>>],
     createTableOptioner |-> [has |-> FALSE, opts |-> <<>>]]

\* the records written through the client: a symbol, and a second field that
\* is accepted, or refused when it is not zero, or a pointer with
\* commitZeroValue
ClientDecls ==
    { Decl(Leaf("string", FALSE), String, <<>>),
      Decl(Leaf("string", FALSE), Int, <<>>),
      Decl(Leaf("string", TRUE), String, <<CommitZeroValue>>) }
ClientTypes ==
    {UserT(StructFields(<<Decl(Leaf("string", FALSE), Symbol, <<>>), d>>)) : d \in ClientDecls}
    \cup {ActiveUserT(StructFields(<<Decl(Leaf("string", FALSE), Symbol, <<>>), d>>)) : d \in ClientDecls}
    \cup {PageViewT(StructFields(<<Decl(Leaf("string", FALSE), Symbol, <<>>), d>>)) : d \in ClientDecls}

\* the option lists of a call: WithTableName("") changes nothing
OptionLists ==
    { <<>>,
      <<WithTableName(<<>>)>>,
      <<WithTableName(<<"t", "1">>)>>,
      <<WithTableName(<<"t", "1">>), WithTableName(<<"t", "2">>)>>,
      <<WithTableName(<<"t", "1">>), WithTableName(<<>>)>>,
      <<WithTableName(<<>>), WithTableName(<<"t", "2">>)>> }

RECURSIVE ValuesOf(_)
RECURSIVE FieldValuesOf(_, _)
\* the values of a type: payloads 0 .. MaxVal for a leaf, every combination
\* of field values for a struct, and nil besides for a pointer
ValuesOf(ty) ==
    LET base == IF ty.kind = "struct"
                THEN {[kind |-> "struct", ptr |-> FALSE, nil |-> FALSE, v |-> 0, fields |-> fs] :
                         fs \in FieldValuesOf(ty.fields, 1)}
                ELSE {[kind |-> ty.kind, ptr |-> FALSE, nil |-> FALSE, v |-> n, fields |-> <<>>] :
                         n \in 0..MaxVal}
    IN  IF ty.ptr
        THEN {[b EXCEPT !.ptr = TRUE] : b \in base}
             \cup {[kind |-> ty.kind, ptr |-> TRUE, nil |-> TRUE, v |-> 0, fields |-> <<>>]}
        ELSE base
FieldValuesOf(fields, i) ==
    IF i > Len(fields) THEN {<<>>}
    ELSE {<<h>> \o t : h \in ValuesOf(fields[i].Type), t \in FieldValuesOf(fields, i + 1)}

\* the records of a ClientTypes type: each field zero or not, a pointer nil
\* besides
ClientRecords(ty) ==
    LET held(t) == {[kind |-> t.kind, ptr |-> t.ptr, nil |-> FALSE, v |-> n, fields |-> <<>>] :
                       n \in {0, 1}}
                   \cup (IF t.ptr
                         THEN {[kind |-> t.kind, ptr |-> TRUE, nil |-> TRUE, v |-> 0, fields |-> <<>>]}
                         ELSE {})
    IN  {[kind |-> "struct", ptr |-> FALSE, nil |-> FALSE, v |-> 0, fields |-> <<a, b>>] :
            a \in held(ty.fields[1].Type), b \in held(ty.fields[2].Type)}

RECURSIVE RowsOf(_, _)
\* the lists of up to n records of a type
RowsOf(ty, n) ==
    IF n = 0 THEN {<<>>}
    ELSE {<<>>} \cup {<<r>> \o t : r \in ClientRecords(ty), t \in RowsOf(ty, n - 1)}

\* the rows of a WriteBatch call: none, or the caller's record and up to
\* MaxRows - 1 records after it
RowLists(ty, record) ==
    {<<>>} \cup {<<record>> \o rest : rest \in RowsOf(ty, MaxRows - 1)}

-----------------------------------------------------------------------------
(* The state machine *)

(* The connections of the client, src/client.go *)

ErrILPNetDial == "could not dial ilp host"
ErrILPTLSDial == "could not dial tls host"
ErrILPNetTCPAddrResolve == "could not resolve ilp host address"
ErrPGOpen == "could not open postgres db"

\* Default(): no key, no key id, no TLS
Default ==
    [made |-> TRUE,
     config |-> [ILPAuthPrivateKey |-> <<>>, ILPAuthKid |-> <<>>, TLSConfig |-> FALSE],
     ilpConn |-> 0, pgSqlDB |-> FALSE]

\* New(config)
New(config) == [made |-> TRUE, config |-> config, ilpConn |-> 0, pgSqlDB |-> FALSE]

\* base64.RawURLEncoding.DecodeString returns no error: the URL-safe
\* alphabet, no padding, and no lone trailing character
RawURLDecodes(s) ==
    /\ Len(s) % 4 # 1
    /\ \A i \in 1..Len(s) :
          s[i] \in ({B64Chars[k] : k \in 1..64} \ {"+", "/"}) \cup {"-", "_"}

\* what the network and the store do during one Connect call: whether the
\* address resolves, the dial succeeds, the two writes and the read of the
\* challenge succeed, ecdsa.Sign succeeds and which signature it draws, and
\* whether sql.Open succeeds
Outcomes ==
    [resolve : BOOLEAN, dial : BOOLEAN, writeKid : BOOLEAN, read : BOOLEAN,
     sign : BOOLEAN, sig : 1..2, writeSig : BOOLEAN, open : BOOLEAN]

\* what Connect leaves: the client, the connections, what it wrote to the
\* ingestion connection, and the error it returns
Connected(c, cs, sent, e) == [client |-> c, conns |-> cs, sent |-> sent, err |-> e]

\* (c *Client) Connect(), the connections dialed so far being cs
Connect(c, cs, env) ==
    IF ~env.resolve THEN Connected(c, cs, <<>>, Err(ErrILPNetTCPAddrResolve, <<>>))
    ELSE IF ~env.dial
    THEN Connected(c, cs, <<>>,
             Err(IF c.config.TLSConfig THEN ErrILPTLSDial ELSE ErrILPNetDial, <<>>))
    ELSE
    LET dialed == Append(cs, "open")
        c1 == [c EXCEPT !.ilpConn = Len(dialed)]
        kid == c.config.ILPAuthKid \o <<"\n">>
        signature == EncodeToString(BytesOf(env.sig)) \o <<"\n">>
        opened == IF ~env.open THEN Connected(c1, dialed, <<>>, Err(ErrPGOpen, <<>>))
                  ELSE Connected([c1 EXCEPT !.pgSqlDB = TRUE], dialed, <<>>, NoErr)
    IN  IF c.config.ILPAuthPrivateKey # <<>>
        THEN IF c.config.ILPAuthKid = <<>>
             THEN Connected(c1, dialed, <<>>,
                      Err("cannot authenticate ilp without 'ILPAuthKid' set in config", <<>>))
             ELSE IF ~RawURLDecodes(c.config.ILPAuthPrivateKey)
             THEN Connected(c1, dialed, <<>>,
                      Err("could not base64 decode ilp private key", <<>>))
             ELSE IF ~env.writeKid
             THEN Connected(c1, dialed, <<>>, Err("could not write to ilp tcp conn", <<>>))
             ELSE IF ~env.read
             THEN Connected(c1, dialed, <<kid>>, Err("could not read from ilp conn", <<>>))
             ELSE IF ~env.sign
             THEN Connected(c1, dialed, <<kid>>, Err("could not ecdsa sign key", <<>>))
             ELSE IF ~env.writeSig
             THEN Connected(c1, dialed, <<kid>>, Err("could not write to ilp tcp conn", <<>>))
             ELSE [opened EXCEPT !.sent = <<kid, signature>>]
        ELSE opened

\* (c *Client) Close(): a nil pgSqlDB or a nil ilpConn is dereferenced;
\* closing a connection that is closed already is an error
Close(c, cs) ==
    IF ~c.pgSqlDB \/ c.ilpConn = 0
    THEN [pc |-> "panic", conns |-> cs, err |-> NoErr]
    ELSE IF cs[c.ilpConn] = "closed"
    THEN [pc |-> "error", conns |-> cs, err |-> Err("could not close ilp tcp conn", <<>>)]
    ELSE [pc |-> "closed", conns |-> [cs EXCEPT ![c.ilpConn] = "closed"], err |-> NoErr]

\* the configurations of a client: no key, a key that decodes, a key that
\* does not; a key id or none; TLS or plain TCP
Configs ==
    [ILPAuthPrivateKey : {<<>>, <<"a", "b", "c", "d", "-", "_">>, <<"a", "+", "=">>},
     ILPAuthKid : {<<>>, <<"k", "i", "d">>},
     TLSConfig : BOOLEAN]

-----------------------------------------------------------------------------
(* The Line message, src/line.go *)

\* NewLine(table, symbols, columns, timestamp); a map[string]string is a
\* function from its keys to their values
NewLine(table, symbols, columns, timestamp) ==
    [made |-> TRUE, table |-> table, symbols |-> symbols, columns |-> columns,
     timestamp |-> timestamp]

\* the orders in which a range statement may visit the keys of a map: the Go
\* specification leaves the iteration order unspecified, and it need not be
\* the same from one iteration to the next
RangeOrders(m) ==
    {order \in [1..Cardinality(DOMAIN m) -> DOMAIN m] :
        \A i, j \in DOMAIN order : i # j => order[i] # order[j]}

RECURSIVE joinPairs(_, _, _)
\* the loop of Line.buildSymbols and of Line.buildColumns over the keys in
\* the order the range statement visits them; n counts the pairs written
joinPairs(m, order, n) ==
    IF n >= Len(order) THEN <<>>
    ELSE order[n + 1] \o <<"=">> \o m[order[n + 1]]
         \o (IF n # Cardinality(DOMAIN m) - 1 THEN <<",">> ELSE <<>>)
         \o joinPairs(m, order, n + 1)

\* Line.buildSymbols, the range statement visiting the keys in order
LineBuildSymbols(l, order) ==
    IF Cardinality(DOMAIN l.symbols) = 0 THEN <<>> ELSE joinPairs(l.symbols, order, 0)

\* Line.buildColumns, the range statement visiting the keys in order
LineBuildColumns(l, order) ==
    IF Cardinality(DOMAIN l.columns) = 0 THEN <<>> ELSE joinPairs(l.columns, order, 0)

\* Line.buildTimestamp
LineBuildTimestamp(l) == Digits(UnixNano(l.timestamp))

\* Line.String, the two range statements visiting the keys in symbolOrder
\* and columnOrder
LineString(l, symbolOrder, columnOrder) ==
    LET symbolsString == LineBuildSymbols(l, symbolOrder)
        columnsString == LineBuildColumns(l, columnOrder)
        timestampString == LineBuildTimestamp(l)
    IN  l.table
        \o (IF symbolsString # <<>> THEN <<",">> \o symbolsString ELSE <<>>)
        \o (IF columnsString # <<>> THEN <<" ">> \o columnsString ELSE <<>>)
        \o (IF timestampString # <<>> THEN <<" ">> \o timestampString ELSE <<>>)
        \o <<"\n">>

\* the keys of the test's Line, in ascending order, and the values it gives
\* them; ts holds the microseconds of the Line's time
SymbolKeys == <<(<<"symbol_a">>), (<<"symbol_b">>)>>
ColumnKeys == <<(<<"col_a">>), (<<"col_b">>), (<<"ts">>)>>
TestValue(key, now) ==
    CASE key = <<"symbol_a">> -> <<"abcd1234">>
      [] key = <<"symbol_b">> -> <<"efgh5678">>
      [] key = <<"col_a">> -> <<"42323532i">>
      [] key = <<"col_b">> -> <<"f">>
      [] key = <<"ts">> -> UnixMicroText(now) \o <<"t">>

\* the maps over a subset of the keys
TestMaps(keys, now) ==
    {[k \in ks |-> TestValue(k, now)] : ks \in SUBSET {keys[i] : i \in 1..Len(keys)}}

-----------------------------------------------------------------------------
\* the result of a call on the model, with the record as it was at the call
NoOutput == [done |-> FALSE, text |-> <<>>, of |-> Invalid]

NoCall == [op |-> "none", rows |-> <<>>, options |-> <<>>]

\* no Client made yet
NoClient == [made |-> FALSE, config |-> <<>>, ilpConn |-> 0, pgSqlDB |-> FALSE]

\* no Line made yet
NoLine == [made |-> FALSE, table |-> <<>>, symbols |-> <<>>, columns |-> <<>>, timestamp |-> 0]

\* nothing scanned, written or executed yet
InitIO ==
    /\ dests = <<>>
    /\ scanned = <<>>
    /\ wire = <<>>
    /\ execd = <<>>
    /\ call = NoCall
    /\ ilpLine = NoLine
    /\ rendered = <<>>
    /\ stack = <<>>
    /\ client = NoClient
    /\ conns = <<>>

\* a record with fields from LineDecls, handed to NewModel by value or by
\* pointer
Init ==
    /\ typ \in LineTypes
    /\ rec \in ValuesOf(typ)
    /\ byPtr \in BOOLEAN
    /\ pc = "start"
    /\ model = NoModel
    /\ err = NoErr
    /\ line = NoOutput
    /\ stmt = NoOutput
    /\ muts = 0
    /\ InitIO

\* m, err := NewModel(rec) or NewModel(&rec)
NewModelCall ==
    /\ pc = "start"
    /\ LET r == NewModel(typ, rec, byPtr)
       IN  /\ pc' = r.pc
           /\ model' = r.model
           /\ err' = r.err
    /\ UNCHANGED <<typ, rec, byPtr, line, stmt, muts>>
    /\ UNCHANGED ioVars

\* the leaves of the record a caller holding it may assign to: the storage
\* the model's fields refer to
AssignablePaths == {model.fields[i].value.path : i \in {j \in 1..Len(model.fields) : model.fields[j].value.valid}}

RECURSIVE Assigned(_, _, _)
\* root with the storage at path replaced by val
Assigned(root, path, val) ==
    IF path = <<>> THEN val
    ELSE [root EXCEPT !.fields[Head(path)] = Assigned(root.fields[Head(path)], Tail(path), val)]

\* rec.F = val, by the caller, between the calls on the model; an assignment
\* to a record that NewModel received by value never reaches the model's
\* copy and is left out
Assign ==
    /\ pc = "modelled"
    /\ byPtr
    /\ muts < MaxMuts
    /\ \E i \in 1..Len(model.fields) :
         /\ model.fields[i].value.valid
         /\ \E val \in ValuesOf(model.fields[i].typ) :
              /\ val # Lookup(rec, model.fields[i].value.path)
              /\ rec' = Assigned(rec, model.fields[i].value.path, val)
    /\ muts' = muts + 1
    /\ UNCHANGED <<typ, byPtr, pc, model, err, line, stmt>>
    /\ UNCHANGED ioVars

\* line := m.MarshalLine(): serialize (its error dropped), then the text
MarshalLineCall ==
    /\ pc = "modelled"
    /\ LET ser == serialize(model.fields, Root(model, rec))
           m == [model EXCEPT !.fields = ser.fields]
       IN  /\ model' = m
           /\ IF ser.panic
              THEN pc' = "panic" /\ line' = NoOutput
              ELSE pc' = pc /\ line' = [done |-> TRUE, text |-> MarshalLine(m, Root(m, rec)),
                                         of |-> Root(m, rec)]
    /\ UNCHANGED <<typ, rec, byPtr, err, stmt, muts>>
    /\ UNCHANGED ioVars

\* stmt := m.CreateTableIfNotExistStatement()
CreateTableCall ==
    /\ pc = "modelled"
    /\ stmt' = [done |-> TRUE, text |-> CreateTableIfNotExistStatement(model), of |-> Invalid]
    /\ UNCHANGED <<typ, rec, byPtr, pc, model, err, line, muts>>
    /\ UNCHANGED ioVars

RECURSIVE Stored(_, _, _, _)
\* the record after the calls from k on stored their source values
Stored(record, ty, calls, k) ==
    IF k > Len(calls) THEN record
    ELSE IF ~calls[k].ret THEN record
    ELSE LET old == Lookup(record, calls[k].recv)
             new == [old EXCEPT !.nil = FALSE, !.v = calls[k].arg]
         IN  Stored(Assigned(record, calls[k].recv, new), ty, calls, k + 1)

\* err := ScanInto(row, dest): the model of dest, its destinations, row.Scan.
\* The row has one column per destination; a QDBScan of the record's types
\* stores what it is given or returns an error
ScanIntoCall ==
    /\ pc = "start"
    /\ \E r \in {NewModel(typ, rec, byPtr)} : \E made \in {bound(r, typ)} :
         IF made.pc # "bound"
         THEN /\ pc' = made.pc
              /\ model' = made.model
              /\ err' = made.err
              /\ UNCHANGED <<rec, dests, scanned>>
         ELSE \E row \in [1..Len(made.addrs) -> 0..MaxVal], qdbScan \in [0..MaxVal -> BOOLEAN] :
                  \E calls \in {rowScan(made.addrs, row, qdbScan, 1, <<>>)} :
                      /\ model' = made.model
                      /\ dests' = made.addrs
                      /\ scanned' = calls
                      /\ rec' = Stored(rec, typ, calls, 1)
                      /\ pc' = IF returned(calls) THEN "scanned" ELSE "error"
                      /\ err' = IF returned(calls) THEN NoErr
                                ELSE Err("QDBScan", made.model.fields[Len(calls)].name)
    /\ UNCHANGED <<typ, byPtr, line, stmt, muts, wire, execd, call>>
    /\ UNCHANGED lineVars
    /\ UNCHANGED connVars

\* err := c.Write(a, options...); written is whether ilpConn.Write returns
\* no error
WriteCall ==
    /\ pc = "start"
    /\ \E options \in OptionLists, written \in BOOLEAN :
         \E out \in {Write(typ, rec, byPtr, options, written)} :
             /\ call' = [op |-> "Write", rows |-> <<rec>>, options |-> options]
             /\ pc' = out.pc
             /\ err' = out.err
             /\ wire' = wire \o out.sent
    /\ UNCHANGED <<typ, rec, byPtr, model, line, stmt, muts, dests, scanned, execd>>
    /\ UNCHANGED lineVars
    /\ UNCHANGED connVars

\* err := c.WriteBatch(rows, options...)
WriteBatchCall ==
    /\ pc = "start"
    /\ \E rows \in RowLists(typ, rec), options \in OptionLists, written \in BOOLEAN :
         \E out \in {WriteBatch(typ, rows, byPtr, options, written)} :
             /\ call' = [op |-> "WriteBatch", rows |-> rows, options |-> options]
             /\ pc' = out.pc
             /\ err' = out.err
             /\ wire' = wire \o out.sent
    /\ UNCHANGED <<typ, rec, byPtr, model, line, stmt, muts, dests, scanned, execd>>
    /\ UNCHANGED lineVars
    /\ UNCHANGED connVars

\* err := c.CreateTableIfNotExists(v, options...); executed is whether Exec
\* returns no error
CreateTableIfNotExistsCall ==
    /\ pc = "start"
    /\ \E options \in OptionLists, executed \in BOOLEAN :
         \E out \in {CreateTableIfNotExists(typ, rec, byPtr, options, executed)} :
             /\ call' = [op |-> "CreateTableIfNotExists", rows |-> <<rec>>, options |-> options]
             /\ pc' = out.pc
             /\ err' = out.err
             /\ execd' = execd \o out.sent
    /\ UNCHANGED <<typ, rec, byPtr, model, line, stmt, muts, dests, scanned, wire>>
    /\ UNCHANGED lineVars
    /\ UNCHANGED connVars

\* a model is made from the record, and read, with no assignment between
Next == NewModelCall \/ MarshalLineCall \/ CreateTableCall

Spec == Init /\ [][Next]_vars

\* the same calls on a record with fields from SchemaDecls
InitSchema ==
    /\ typ \in SchemaTypes
    /\ rec \in ValuesOf(typ)
    /\ byPtr \in BOOLEAN
    /\ pc = "start"
    /\ model = NoModel
    /\ err = NoErr
    /\ line = NoOutput
    /\ stmt = NoOutput
    /\ muts = 0
    /\ InitIO

SpecSchema == InitSchema /\ [][Next]_vars

\* the same calls on a record with fields from RejectDecls
InitReject ==
    /\ typ \in RejectTypes
    /\ rec \in ValuesOf(typ)
    /\ byPtr \in BOOLEAN
    /\ pc = "start"
    /\ model = NoModel
    /\ err = NoErr
    /\ line = NoOutput
    /\ stmt = NoOutput
    /\ muts = 0
    /\ InitIO

SpecReject == InitReject /\ [][Next]_vars

\* the same calls on a record with fields from CodecDecls
InitCodec ==
    /\ typ \in CodecTypes
    /\ rec \in ValuesOf(typ)
    /\ byPtr \in BOOLEAN
    /\ pc = "start"
    /\ model = NoModel
    /\ err = NoErr
    /\ line = NoOutput
    /\ stmt = NoOutput
    /\ muts = 0
    /\ InitIO

SpecCodec == InitCodec /\ [][Next]_vars

\* a destination record with fields from ScanDecls, handed to ScanInto
InitScan ==
    /\ typ \in ScanTypes
    /\ rec \in ValuesOf(typ)
    /\ byPtr \in BOOLEAN
    /\ pc = "start"
    /\ model = NoModel
    /\ err = NoErr
    /\ line = NoOutput
    /\ stmt = NoOutput
    /\ muts = 0
    /\ InitIO

SpecScan == InitScan /\ [][ScanIntoCall]_vars

\* the same calls on the example record
InitScenario ==
    /\ typ \in ScenarioTypes
    /\ rec \in ScenarioRecords(typ)
    /\ byPtr \in BOOLEAN
    /\ pc = "start"
    /\ model = NoModel
    /\ err = NoErr
    /\ line = NoOutput
    /\ stmt = NoOutput
    /\ muts = 0
    /\ InitIO

SpecScenario == InitScenario /\ [][Next]_vars

\* a record handed to the client
InitClient ==
    /\ typ \in ClientTypes
    /\ rec \in ClientRecords(typ)
    /\ byPtr \in BOOLEAN
    /\ pc = "start"
    /\ model = NoModel
    /\ err = NoErr
    /\ line = NoOutput
    /\ stmt = NoOutput
    /\ muts = 0
    /\ InitIO

NextClient == WriteCall \/ WriteBatchCall \/ CreateTableIfNotExistsCall

SpecClient == InitClient /\ [][NextClient]_vars

\* the same calls on a record with fields from InstanceDecls
InitInstances ==
    /\ typ \in InstanceTypes
    /\ rec \in ValuesOf(typ)
    /\ byPtr \in BOOLEAN
    /\ pc = "start"
    /\ model = NoModel
    /\ err = NoErr
    /\ line = NoOutput
    /\ stmt = NoOutput
    /\ muts = 0
    /\ InitIO

SpecInstances == InitInstances /\ [][Next]_vars

\* a record whose type gives table options
InitOptions ==
    /\ typ \in OptionTypes
    /\ rec \in ValuesOf(typ)
    /\ byPtr \in BOOLEAN
    /\ pc = "start"
    /\ model = NoModel
    /\ err = NoErr
    /\ line = NoOutput
    /\ stmt = NoOutput
    /\ muts = 0
    /\ InitIO

SpecOptions == InitOptions /\ [][Next]_vars

\* a record with one integer field under an integer column type
InitIntegers ==
    /\ typ \in IntegerTypes
    /\ rec \in ValuesOf(typ)
    /\ byPtr \in BOOLEAN
    /\ pc = "start"
    /\ model = NoModel
    /\ err = NoErr
    /\ line = NoOutput
    /\ stmt = NoOutput
    /\ muts = 0
    /\ InitIO

SpecIntegers == InitIntegers /\ [][Next]_vars

\* the caller keeps the model of &rec and assigns to rec between the calls
InitAssign ==
    /\ typ \in AssignTypes
    /\ rec \in ValuesOf(typ)
    /\ byPtr = TRUE
    /\ pc = "start"
    /\ model = NoModel
    /\ err = NoErr
    /\ line = NoOutput
    /\ stmt = NoOutput
    /\ muts = 0
    /\ InitIO

NextAssign == NewModelCall \/ Assign \/ MarshalLineCall \/ CreateTableCall

SpecAssign == InitAssign /\ [][NextAssign]_vars

\* l := NewLine("table_abc", symbols, columns, now)
NewLineCall ==
    /\ ~ilpLine.made
    /\ \E now \in 1..(MaxVal + 1) :
         \E symbols \in TestMaps(SymbolKeys, now), columns \in TestMaps(ColumnKeys, now) :
             ilpLine' = NewLine(<<"table_abc">>, symbols, columns, now)
    /\ UNCHANGED <<typ, rec, byPtr, pc, model, err, line, stmt, muts>>
    /\ UNCHANGED <<dests, scanned, wire, execd, call, rendered>>
    /\ UNCHANGED connVars

\* l.String(): each of its two range statements visits the keys of its map
\* in an order of its own
LineStringCall ==
    /\ ilpLine.made
    /\ Len(rendered) < MaxCalls
    /\ \E symbolOrder \in RangeOrders(ilpLine.symbols),
          columnOrder \in RangeOrders(ilpLine.columns) :
             rendered' = Append(rendered, LineString(ilpLine, symbolOrder, columnOrder))
    /\ UNCHANGED <<typ, rec, byPtr, pc, model, err, line, stmt, muts>>
    /\ UNCHANGED <<dests, scanned, wire, execd, call, ilpLine>>
    /\ UNCHANGED connVars

\* a Line is made by hand, as in TestLineToString, and printed
InitLine ==
    /\ typ = UserT(<<>>)
    /\ rec \in ValuesOf(typ)
    /\ byPtr = FALSE
    /\ pc = "start"
    /\ model = NoModel
    /\ err = NoErr
    /\ line = NoOutput
    /\ stmt = NoOutput
    /\ muts = 0
    /\ InitIO

NextLine == NewLineCall \/ LineStringCall

SpecLine == InitLine /\ [][NextLine]_vars

\* client := Default(), or client, _ := New(config)
NewClientCall ==
    /\ ~client.made
    /\ client' \in {Default} \cup {New(config) : config \in Configs}
    /\ UNCHANGED <<typ, rec, byPtr, pc, model, err, line, stmt, muts>>
    /\ UNCHANGED <<dests, scanned, wire, execd, call, ilpLine, rendered, stack, conns>>

\* err := client.Connect()
ConnectCall ==
    /\ client.made
    /\ pc # "panic"
    /\ Len(conns) < MaxDials
    /\ \E env \in Outcomes :
         \E out \in {Connect(client, conns, env)} :
             /\ client' = out.client
             /\ conns' = out.conns
             /\ wire' = wire \o out.sent
             /\ err' = out.err
             /\ pc' = IF out.err = NoErr THEN "connected" ELSE "error"
    /\ call' = [op |-> "Connect", rows |-> <<>>, options |-> <<>>]
    /\ UNCHANGED <<typ, rec, byPtr, model, line, stmt, muts>>
    /\ UNCHANGED <<dests, scanned, execd, ilpLine, rendered, stack>>

\* err := client.Close()
CloseCall ==
    /\ client.made
    /\ pc # "panic"
    /\ \E out \in {Close(client, conns)} :
         /\ conns' = out.conns
         /\ err' = out.err
         /\ pc' = out.pc
    /\ call' = [op |-> "Close", rows |-> <<>>, options |-> <<>>]
    /\ UNCHANGED <<typ, rec, byPtr, model, line, stmt, muts>>
    /\ UNCHANGED <<dests, scanned, wire, execd, ilpLine, rendered, stack, client>>

\* a client is made, connected and closed, in any order and more than once
InitConnect ==
    /\ typ = UserT(<<>>)
    /\ rec \in ValuesOf(typ)
    /\ byPtr = FALSE
    /\ pc = "start"
    /\ model = NoModel
    /\ err = NoErr
    /\ line = NoOutput
    /\ stmt = NoOutput
    /\ muts = 0
    /\ InitIO

NextConnect == NewClientCall \/ ConnectCall \/ CloseCall

SpecConnect == InitConnect /\ [][NextConnect]_vars

RECURSIVE SelfNil(_, _)
\* every pointer to the record type itself below val is nil
SelfNil(ty, val) ==
    IF ty.kind = "self" THEN val.nil
    ELSE IF ty.kind = "struct" /\ ~val.nil
    THEN \A i \in 1..Len(ty.fields) : SelfNil(ty.fields[i].Type, val.fields[i])
    ELSE TRUE

\* the type a field type names: the record type for a pointer to itself
Resolved(ty) == IF ty.kind = "self" THEN [typ EXCEPT !.ptr = ty.ptr] ELSE ty

\* whether the annotation declares the column type embedded
DeclaresEmbedded(tag) ==
    LET tagProps == Split(tag, ";") IN Len(tagProps) >= 2 /\ tagProps[2] = Embedded

\* one iteration of the loop of structToFieldSlice on the field sf, short of
\* the nested call: the checks of the annotation
iteration(sf) ==
    structToFieldSliceFrom(<<>>, <<>>,
        Struct(<<[sf EXCEPT !.Type = IF DeclaresEmbedded(sf.Tag) THEN Struct(<<>>, FALSE)
                                     ELSE sf.Type]>>, FALSE),
        Invalid, <<>>, 1, <<>>)

\* NewModel(a) up to its call of structToFieldSlice("", "", ty, val)
NewModelEnter ==
    /\ pc = "start"
    /\ IF typ.kind # "struct"
       THEN \E r \in {NewModel(typ, rec, byPtr)} :
                pc' = r.pc /\ model' = r.model /\ err' = r.err /\ stack' = stack
       ELSE /\ pc' = "walking"
            /\ stack' = <<[ty |-> typ, i |-> 1]>>
            /\ UNCHANGED <<model, err>>
    /\ UNCHANGED <<typ, rec, byPtr, line, stmt, muts>>
    /\ UNCHANGED <<dests, scanned, wire, execd, call, ilpLine, rendered, client, conns>>

\* one iteration of the loop of the innermost structToFieldSlice call: a
\* return to the caller after the last field, an error, a nested call for an
\* embedded field (a fatal stack overflow when the stack has no room for its
\* frame), or the next field.  The outermost call returns to NewModel, which
\* goes on to its end
structToFieldSliceStep ==
    /\ pc = "walking"
    /\ LET n == Len(stack)
           top == stack[n]
       IN  IF top.i > NumField(top.ty)
           THEN IF n = 1
                THEN \E r \in {NewModel(typ, rec, byPtr)} :
                         pc' = r.pc /\ model' = r.model /\ err' = r.err /\ stack' = <<>>
                ELSE /\ stack' = [SubSeq(stack, 1, n - 1) EXCEPT ![n - 1].i = @ + 1]
                     /\ UNCHANGED <<pc, model, err>>
           ELSE LET sf == top.ty.fields[top.i]
                IN  IF iteration(sf).err # NoErr
                    THEN \E r \in {NewModel(typ, rec, byPtr)} :
                             pc' = r.pc /\ model' = r.model /\ err' = r.err /\ stack' = <<>>
                    ELSE IF ~ignored(sf.Tag) /\ DeclaresEmbedded(sf.Tag)
                    THEN IF TypeElem(Resolved(sf.Type)).kind # "struct"
                         THEN pc' = "panic" /\ stack' = <<>> /\ UNCHANGED <<model, err>>
                         ELSE IF n >= MaxStack
                         THEN pc' = "fatal" /\ UNCHANGED <<stack, model, err>>
                         ELSE /\ stack' = Append(stack, [ty |-> TypeElem(Resolved(sf.Type)), i |-> 1])
                              /\ UNCHANGED <<pc, model, err>>
                    ELSE /\ stack' = [stack EXCEPT ![n].i = @ + 1]
                         /\ UNCHANGED <<pc, model, err>>
    /\ UNCHANGED <<typ, rec, byPtr, line, stmt, muts>>
    /\ UNCHANGED <<dests, scanned, wire, execd, call, ilpLine, rendered, client, conns>>

\* a record whose embedded fields may lead back to its own type; the
\* pointers to the type itself are nil
InitWalk ==
    /\ typ \in WalkTypes
    /\ rec \in {r \in ValuesOf(typ) : SelfNil(typ, r)}
    /\ byPtr \in BOOLEAN
    /\ pc = "start"
    /\ model = NoModel
    /\ err = NoErr
    /\ line = NoOutput
    /\ stmt = NoOutput
    /\ muts = 0
    /\ InitIO

NextWalk == NewModelEnter \/ structToFieldSliceStep

SpecWalk == InitWalk /\ [][NextWalk]_vars

\* every annotation of at most MaxTagLen tokens, on a field of a record that
\* may hold another field before or after it
MaxTagLen == 4
TagTokens == {";", ":", "-", "string"}
RECURSIVE TagStrings(_)
TagStrings(n) ==
    IF n = 0 THEN {<<>>}
    ELSE {<<>>} \cup {<<c>> \o t : c \in TagTokens, t \in TagStrings(n - 1)}
OtherDecls == {Decl(Leaf("string", FALSE), String, <<>>), RawDecl(Leaf("string", FALSE), <<"-">>)}
TagTypes ==
    LET probes == {RawDecl(Leaf("string", FALSE), t) : t \in TagStrings(MaxTagLen)}
    IN  {UserT(StructFields(<<p>>)) : p \in probes}
        \cup {UserT(StructFields(<<p, o>>)) : p \in probes, o \in OtherDecls}
        \cup {UserT(StructFields(<<o, p>>)) : p \in probes, o \in OtherDecls}

InitTag ==
    /\ typ \in TagTypes
    /\ rec \in ValuesOf(typ)
    /\ byPtr \in BOOLEAN
    /\ pc = "start"
    /\ model = NoModel
    /\ err = NoErr
    /\ line = NoOutput
    /\ stmt = NoOutput
    /\ muts = 0
    /\ InitIO

SpecTag == InitTag /\ [][Next]_vars

-----------------------------------------------------------------------------
(* The rendered line, read back from its text *)

Occurs(s, tok) == \E i \in 1..Len(s) : s[i] = tok

\* the line without its newline, cut at the spaces
LineParts(text) ==
    Split(IF text # <<>> /\ text[Len(text)] = "\n" THEN SubSeq(text, 1, Len(text) - 1) ELSE text, " ")

\* the pairs after the table name, up to the first space
SymbolPairs(text) == Tail(Split(LineParts(text)[1], ","))

\* the pairs of the part after the first space, when it holds pairs
ColumnPairs(text) ==
    LET parts == LineParts(text)
    IN  IF Len(parts) >= 2 /\ Occurs(parts[2], "=") THEN Split(parts[2], ",") ELSE <<>>

\* the last part, when it is not a list of pairs
TimestampToken(text) ==
    LET parts == LineParts(text)
    IN  IF Len(parts) >= 2 /\ ~Occurs(parts[Len(parts)], "=") THEN parts[Len(parts)] ELSE <<>>

PairName(pair) == Split(pair, "=")[1]
PairsNamed(pairs, name) == Cardinality({i \in 1..Len(pairs) : PairName(pairs[i]) = name})

\* the field list of the record type, as schema derivation gives it
DeclaredFields == structToFieldSlice(<<>>, <<>>, typ, rec).fields

\* zero as the spec has it: the zero value, a nil pointer, a pointer to a
\* zero value; a field below a nil embedded pointer holds nothing
ZeroValued(val) ==
    ~IsValid(val) \/ (IF val.ptr THEN val.nil \/ IsZero(Elem(val)) ELSE IsZero(val))

-----------------------------------------------------------------------------
(* C1 .. C6: the line protocol encoder *)

\* C1: a field other than the designated timestamp that sets commitZeroValue
\* and holds a zero value (zero, pointer to zero, nil pointer) never makes
\* NewModel or MarshalLine crash, and the line has exactly one pair for it, in
\* the symbol section if its type is symbol and in the column section otherwise
C1_CommitZeroRendered ==
    \A i \in 1..Len(DeclaredFields) :
        LET f == DeclaredFields[i]
        IN  (f.tagOptions.commitZeroValue /\ ~f.tagOptions.designatedTS) =>
              /\ ZeroValued(FieldValue(rec, f)) => pc # "panic"
              /\ (line.done /\ ZeroValued(FieldValue(line.of, f))) =>
                    /\ PairsNamed(SymbolPairs(line.text), f.qdbName)
                         = (IF f.qdbType = Symbol THEN 1 ELSE 0)
                    /\ PairsNamed(ColumnPairs(line.text), f.qdbName)
                         = (IF f.qdbType = Symbol THEN 0 ELSE 1)

InSection(f, root, symbol) ==
    /\ (f.qdbType = Symbol) = symbol
    /\ ~f.tagOptions.designatedTS
    /\ ~ZeroValued(FieldValue(root, f)) \/ f.tagOptions.commitZeroValue
SectionNames(fields, root, symbol) ==
    LET sel == SelectSeq(fields, LAMBDA f : InSection(f, root, symbol))
    IN  [i \in 1..Len(sel) |-> sel[i].qdbName]
PairNames(pairs) == [i \in 1..Len(pairs) |-> PairName(pairs[i])]
\* name=value with one "=": no pair is empty and no two pairs run together
WellFormedPairs(pairs) ==
    \A i \in 1..Len(pairs) :
        /\ Cardinality({k \in 1..Len(pairs[i]) : pairs[i][k] = "="}) = 1
        /\ PairName(pairs[i]) # <<>>

\* C3: the symbol section and the column section of the line are each the
\* name=value pairs of their fields in declaration order, one comma between
\* consecutive pairs and no leading, trailing or missing comma, also when the
\* designated timestamp field is zero and skipped
C3_SectionsCommaJoined ==
    line.done =>
        /\ WellFormedPairs(SymbolPairs(line.text))
        /\ WellFormedPairs(ColumnPairs(line.text))
        /\ PairNames(SymbolPairs(line.text)) = SectionNames(model.fields, line.of, TRUE)
        /\ PairNames(ColumnPairs(line.text)) = SectionNames(model.fields, line.of, FALSE)

\* the designated timestamp field of the model holds a non-zero time.Time
HoldsTime(m, root) ==
    /\ m.designatedTS # 0
    /\ LET v == FieldValue(root, m.fields[m.designatedTS])
       IN  IsValid(v) /\ ~v.ptr /\ v.kind = "time" /\ ~TimeIsZero(v.v)
TimeHeld(m, root) == FieldValue(root, m.fields[m.designatedTS]).v

\* C4 as the spec states it: when the designated timestamp field holds a
\* non-zero time t, the last token of the line is the decimal number of
\* microseconds of t since the Unix epoch, bare
C4_TimestampMicros ==
    (line.done /\ HoldsTime(model, line.of)) =>
        TimestampToken(line.text) = Digits(UnixNano(TimeHeld(model, line.of)) \div 1000)

\* C4, amended: when the designated timestamp field holds a non-zero time t,
\* the last token of the line is the decimal number of nanoseconds of t since
\* the Unix epoch, with no t marker and no name= prefix
C4_TimestampNanos ==
    (line.done /\ HoldsTime(model, line.of)) =>
        LET parts == LineParts(line.text)
        IN  Len(parts) >= 2 /\ parts[Len(parts)] = Digits(UnixNano(TimeHeld(model, line.of)))

\* a line for a record whose designated timestamp was assigned a time after
\* the model was made
C4_Witness ==
    /\ line.done
    /\ HoldsTime(model, line.of)
    /\ HoldsTime(model, rec)
    /\ muts > 0
    /\ model.fields[model.designatedTS].isZero

\* C5: a designated timestamp field holding a non-zero value of a kind the
\* column type timestamp accepts (int64, time, or a non-nil pointer to one) is
\* absent from the column section and the line ends with a timestamp token
C5_TimestampNeverDropped ==
    (line.done /\ model.designatedTS # 0) =>
        LET f == model.fields[model.designatedTS]
        IN  ~ZeroValued(FieldValue(line.of, f)) =>
              /\ PairsNamed(ColumnPairs(line.text), f.qdbName) = 0
              /\ TimestampToken(line.text) # <<>>

\* C6: the line is the table name, a comma and the symbol section if that is
\* non-empty, a space and the column section if that is non-empty, a space and
\* the timestamp token if there is one, and one newline; no designated
\* timestamp field, no timestamp token; all fields skipped, table name and
\* newline
C6_LineAssembly ==
    line.done =>
        LET symbols == buildSymbols(model)
            columns == buildColumns(model)
            timestamp == buildTimestamp(model, line.of)
            parts == LineParts(line.text)
            hasSymbols == \E i \in 1..Len(model.fields) : InSection(model.fields[i], line.of, TRUE)
            hasColumns == \E i \in 1..Len(model.fields) : InSection(model.fields[i], line.of, FALSE)
        IN  /\ line.text = model.tableName
                            \o (IF symbols # <<>> THEN <<",">> \o symbols ELSE <<>>)
                            \o (IF columns # <<>> THEN <<" ">> \o columns ELSE <<>>)
                            \o (IF timestamp # <<>> THEN <<" ">> \o timestamp ELSE <<>>)
                            \o <<"\n">>
            /\ {k \in 1..Len(line.text) : line.text[k] = "\n"} = {Len(line.text)}
            /\ \A k \in 1..Len(parts) : parts[k] # <<>>
            /\ Split(parts[1], ",")[1] = model.tableName
            /\ (parts[1] # model.tableName) <=> hasSymbols
            /\ (ColumnPairs(line.text) # <<>>) <=> hasColumns
            /\ Len(parts) = 1 + (IF hasColumns THEN 1 ELSE 0)
                               + (IF TimestampToken(line.text) # <<>> THEN 1 ELSE 0)
            /\ model.designatedTS = 0 => TimestampToken(line.text) = <<>>
            /\ (\A i \in 1..Len(model.fields) :
                    /\ ZeroValued(FieldValue(line.of, model.fields[i]))
                    /\ ~model.fields[i].tagOptions.commitZeroValue)
                 => line.text = model.tableName \o <<"\n">>

\* a line with a symbol section, a column section and a timestamp token
C6_Witness ==
    /\ line.done
    /\ SymbolPairs(line.text) # <<>>
    /\ ColumnPairs(line.text) # <<>>
    /\ TimestampToken(line.text) # <<>>

-----------------------------------------------------------------------------
(* C7 .. C9: the schema, against the declarations of the record type *)

\* an annotation declares the option key:val
DeclaresOption(tag, key, val) ==
    LET segs == Split(tag, ";")
    IN  \E k \in 3..Len(segs) : segs[k] = key \o <<":">> \o val
\* the column type an annotation names
TypeSegment(tag) == LET segs == Split(tag, ";") IN IF Len(segs) >= 2 THEN segs[2] ELSE <<>>

RECURSIVE FlatDecls(_, _, _, _)
\* the declarations of a record type flattened as the spec has it: depth
\* first, the internal name the dot-joined path, the wire name behind the
\* embeddedPrefix of every enclosing embedded field, outermost first
FlatDecls(ty, i, fieldPrefix, colPrefix) ==
    IF i > Len(ty.fields) THEN <<>>
    ELSE LET sf == ty.fields[i]
             segs == Split(sf.Tag, ";")
             here ==
                 IF sf.Tag = <<"-">> THEN <<>>
                 ELSE IF TypeSegment(sf.Tag) = Embedded
                 THEN FlatDecls(TypeElem(sf.Type), 1, fieldPrefix \o sf.Name \o <<".">>,
                          colPrefix \o getOption(SliceFrom(segs, 3), <<"embeddedPrefix">>))
                 ELSE <<[name |-> fieldPrefix \o sf.Name,
                         qdbName |-> colPrefix \o segs[1],
                         tag |-> sf.Tag,
                         depth |-> Cardinality({k \in 1..Len(fieldPrefix) : fieldPrefix[k] = "."})]>>
         IN  here \o FlatDecls(ty, i + 1, fieldPrefix, colPrefix)

RECURSIVE Flagged(_, _)
\* the fields of a record type, embedded sub-records included, whose
\* annotation sets designatedTS:true
Flagged(ty, i) ==
    IF i > Len(ty.fields) THEN <<>>
    ELSE LET sf == ty.fields[i]
             here ==
                 IF sf.Tag = <<"-">> THEN <<>>
                 ELSE (IF DeclaresOption(sf.Tag, <<"designatedTS">>, <<"true">>)
                       THEN <<TypeSegment(sf.Tag)>> ELSE <<>>)
                      \o (IF TypeSegment(sf.Tag) = Embedded
                          THEN Flagged(TypeElem(sf.Type), 1) ELSE <<>>)
         IN  here \o Flagged(ty, i + 1)

\* C7: a Model has at most one field with the designatedTS flag, the fields
\* flagged are those the type declares, Model.designatedTS points to the
\* flagged field and its column type is timestamp; a record type with two
\* flagged fields (at one level, or one inside an embedded sub-record) or with
\* a flagged field of another column type gets an error and no Model
C7_OneDesignatedTimestamp ==
    LET declared == Flagged(typ, 1)
        flagged == {i \in 1..Len(model.fields) : model.fields[i].tagOptions.designatedTS}
    IN  /\ pc = "modelled" =>
              /\ Cardinality(flagged) <= 1
              /\ Cardinality(flagged) = Len(declared)
              /\ flagged = {} => model.designatedTS = 0
              /\ \A i \in flagged :
                    model.designatedTS = i /\ model.fields[i].qdbType = Timestamp
        /\ (pc # "start" /\ (Len(declared) >= 2
                               \/ \E k \in 1..Len(declared) : declared[k] # Timestamp)) =>
              pc = "error" /\ model = NoModel

\* NewModel refused a record type whose second flagged field lies inside an
\* embedded sub-record
C7_Witness ==
    /\ pc = "error"
    /\ err.kind = "multiple designated timestamp fields found"
    /\ Len(Flagged(typ, 1)) = 2
    /\ \E i \in 1..Len(typ.fields) :
          TypeSegment(typ.fields[i].Tag) = Embedded /\ Len(Flagged(TypeElem(typ.fields[i].Type), 1)) = 1

RECURSIVE IndexClauseNames(_)
\* the names of the index(...) clauses of a statement, in order
IndexClauseNames(text) ==
    IF text = <<>> THEN <<>>
    ELSE IF Head(text) = "index("
    THEN LET close == CHOOSE k \in 1..Len(text) :
                          text[k] = ")" /\ \A j \in 1..(k - 1) : text[j] # ")"
         IN  <<SubSeq(text, 2, close - 1)>> \o IndexClauseNames(SubSeq(text, close + 1, Len(text)))
    ELSE IndexClauseNames(Tail(text))

\* C8: the fields whose annotation sets index:true are the indexed fields of
\* the Model, and the statement has one index(<wireName>) clause for each of
\* them, in declaration order, and for no other field
C8_IndexOption ==
    pc = "modelled" =>
        LET decls == FlatDecls(typ, 1, <<>>, <<>>)
            indexed == SelectSeq([k \in 1..Len(decls) |-> k],
                           LAMBDA k : DeclaresOption(decls[k].tag, <<"index">>, <<"true">>))
        IN  /\ model.indexFields = indexed
            /\ stmt.done =>
                  IndexClauseNames(stmt.text)
                    = [k \in 1..Len(indexed) |-> model.fields[indexed[k]].qdbName]

\* C9: a field reached through embedded sub-records has the dot-joined path
\* as its internal name and, as its wire name, the embeddedPrefix of every
\* enclosing embedded field, outermost first, before its own wire name; the
\* sub-fields stand at the embedded field's position, depth first
C9_EmbeddedNames ==
    pc = "modelled" =>
        LET decls == FlatDecls(typ, 1, <<>>, <<>>)
        IN  [i \in 1..Len(model.fields) |->
                [name |-> model.fields[i].name, qdbName |-> model.fields[i].qdbName]]
            = [k \in 1..Len(decls) |-> [name |-> decls[k].name, qdbName |-> decls[k].qdbName]]

-----------------------------------------------------------------------------
(* C10: the syntax of annotations *)

\* fewer than two semicolon-delimited segments, or an option segment after
\* the second that is not one key:value pair
Malformed(tag) ==
    \/ ~Occurs(tag, ";")
    \/ LET segs == Split(tag, ";")
       IN  \E k \in 3..Len(segs) : Cardinality({j \in 1..Len(segs[k]) : segs[k][j] = ":"}) # 1
SyntaxErrors == {"could not parse field: invalid tag length", "could not parse field: invalid tag"}
\* the fields of the record type that are not excluded by the annotation -
Included == {i \in 1..Len(typ.fields) : typ.fields[i].Tag # <<"-">>}

\* C10: schema derivation fails, with no Model, when the annotation of some
\* non-excluded field is malformed; it fails for syntax reasons only at a
\* malformed annotation, which the error names, and does so whenever the
\* first non-excluded field is malformed
C10_MalformedAnnotationFails ==
    pc # "start" =>
        /\ (\E i \in Included : Malformed(typ.fields[i].Tag)) => (pc = "error" /\ model = NoModel)
        /\ (pc = "error" /\ err.kind \in SyntaxErrors) =>
              \E i \in Included : Malformed(typ.fields[i].Tag) /\ err.field = typ.fields[i].Name
        /\ \A i \in Included :
              (Malformed(typ.fields[i].Tag) /\ \A j \in Included : j >= i) =>
                  (err.kind \in SyntaxErrors /\ err.field = typ.fields[i].Name)

\* NewModel refused an annotation with a name, a supported type and an empty
\* trailing option segment
C10_Witness ==
    /\ pc = "error"
    /\ err.kind = "could not parse field: invalid tag"
    /\ \E i \in Included :
          LET segs == Split(typ.fields[i].Tag, ";")
          IN  Len(segs) = 3 /\ segs[2] = String /\ segs[3] = <<>> /\ err.field = typ.fields[i].Name

-----------------------------------------------------------------------------
(* C11 .. C14: what schema derivation refuses, passes over and keeps *)

\* the column type names the spec lists as supported
SupportedNames ==
    {<<"boolean">>, <<"byte">>, <<"short">>, <<"char">>, <<"int">>, <<"float">>, <<"symbol">>,
     <<"string">>, <<"long">>, <<"date">>, <<"timestamp">>, <<"double">>, <<"binary">>, <<"json">>}

RECURSIVE Refused(_, _, _)
\* the fields of a record type, depth first with their dotted paths, that
\* are embedded without a non-empty embeddedPrefix or name an unsupported type
Refused(ty, i, fieldPrefix) ==
    IF i > Len(ty.fields) THEN <<>>
    ELSE LET sf == ty.fields[i]
             segs == Split(sf.Tag, ";")
             path == fieldPrefix \o sf.Name
             prefixed == \E k \in 3..Len(segs) :
                            /\ Len(segs[k]) > 2
                            /\ SubSeq(segs[k], 1, 2) = <<"embeddedPrefix", ":">>
             here ==
                 IF sf.Tag = <<"-">> THEN <<>>
                 ELSE IF TypeSegment(sf.Tag) = Embedded
                 THEN (IF prefixed
                       THEN Refused(TypeElem(sf.Type), 1, path \o <<".">>)
                       ELSE <<[path |-> path, kind |-> "could not parse field: embeddedPrefix is required"]>>)
                 ELSE IF TypeSegment(sf.Tag) \in SupportedNames THEN <<>>
                 ELSE <<[path |-> path, kind |-> "could not parse field: unsupported qdb type"]>>
         IN  here \o Refused(ty, i + 1, fieldPrefix)

\* C11: an embedded field without a non-empty embeddedPrefix, and a field of
\* a type outside the supported set (long256, geohash, unknown names), make
\* NewModel return an error and no Model whatever the record holds, and the
\* error carries the dotted path of the first such field
C11_RefusedFieldFails ==
    LET refused == Refused(typ, 1, <<>>)
    IN  (pc # "start" /\ refused # <<>>) =>
            /\ pc = "error"
            /\ model = NoModel
            /\ err.field = refused[1].path
            /\ err.kind = refused[1].kind

\* NewModel refused a field two embedded levels deep of a record whose
\* pointers are nil and whose values are zero
C11_Witness ==
    /\ pc = "error"
    /\ Cardinality({k \in 1..Len(err.field) : err.field[k] = "."}) = 2
    /\ \A i \in 1..Len(rec.fields) : ZeroValued(rec.fields[i])

\* the Go kinds the spec's type table accepts for a column type; json takes
\* any value
AcceptedKinds(name) ==
    CASE name = <<"boolean">> -> {"bool"}
      [] name = <<"byte">> -> {"int8"}
      [] name = <<"short">> -> {"uint8", "int8", "int16"}
      [] name = <<"char">> -> {"int32"}
      [] name = <<"int">> -> {"uint8", "int8", "uint16", "int16", "int32"}
      [] name = <<"float">> -> {"float32"}
      [] name \in {<<"symbol">>, <<"string">>} -> {"string"}
      [] name = <<"long">> -> {"uint8", "int8", "uint16", "int16", "uint32", "int32", "int64", "int"}
      [] name \in {<<"date">>, <<"timestamp">>} -> {"int64", "time"}
      [] name = <<"double">> -> {"float32", "float64"}
      [] name = <<"binary">> -> {"Bytes", "string", "[]byte"}
      [] OTHER -> {}

\* the fields of the record whose kind the declared column type does not accept
Mismatched ==
    {i \in 1..Len(typ.fields) :
        /\ typ.fields[i].Tag # <<"-">>
        /\ TypeSegment(typ.fields[i].Tag) \in SupportedNames \ {<<"json">>}
        /\ typ.fields[i].Type.kind \notin AcceptedKinds(TypeSegment(typ.fields[i].Tag))}

\* C12: when some field's runtime kind is not accepted by its declared
\* column type, NewModel returns an error naming that field and no Model,
\* for every value the field may hold
C12_MismatchFails ==
    (pc # "start" /\ Mismatched # {}) =>
        /\ pc = "error"
        /\ model = NoModel
        /\ \E i \in Mismatched : err = Err("is not compatible with", typ.fields[i].Name)

\* the record type and the record without the fields annotated -
KeptFields == {i \in 1..Len(typ.fields) : typ.fields[i].Tag # <<"-">>}
RECURSIVE Without(_, _)
Without(s, i) ==
    IF i > Len(s) THEN <<>>
    ELSE (IF i \in KeptFields THEN <<s[i]>> ELSE <<>>) \o Without(s, i + 1)
TypWithout == [typ EXCEPT !.fields = Without(typ.fields, 1)]
RecWithout == [rec EXCEPT !.fields = Without(rec.fields, 1)]

\* a model's fields without the position of their storage, and what they hold
Described(m, root) ==
    [i \in 1..Len(m.fields) |->
        [field |-> [m.fields[i] EXCEPT !.value = m.fields[i].value.valid],
         holds |-> FieldValue(root, m.fields[i])]]

\* the line MarshalLine returns for a model
LineOf(m, root) == MarshalLine([m EXCEPT !.fields = serialize(m.fields, root).fields], root)

\* the destinations of a model without the position of their storage
ProxiesOf(m, ty) ==
    LET d == destinations(m, ty)
    IN  [panic |-> d.panic, proxies |-> [i \in 1..Len(d.addrs) |-> d.addrs[i].proxy]]

\* C13: a field annotated exactly - causes no error and is in none of the
\* field list, Columns(), the statement, the line and the destinations, and
\* every other field is as if the excluded field were not declared; an
\* annotation that only starts with - (as -;string) declares a column
C13_ExcludedField ==
    LET without == NewModel(TypWithout, RecWithout, byPtr)
    IN  pc # "start" =>
          /\ pc = without.pc
          /\ err = without.err
          /\ pc = "modelled" =>
                /\ Described(model, Root(model, rec)) = Described(without.model, RecWithout)
                /\ \A i \in 1..Len(model.fields) :
                       model.fields[i].value.valid => Head(model.fields[i].value.path) \in KeptFields
                /\ Columns(model) = Columns(without.model)
                /\ CreateTableIfNotExistStatement(model) = CreateTableIfNotExistStatement(without.model)
                /\ stmt.done => stmt.text = CreateTableIfNotExistStatement(without.model)
                /\ line.done => line.text = LineOf(without.model, RecWithout)
                /\ ProxiesOf(model, typ) = ProxiesOf(without.model, TypWithout)
                /\ LET d == destinations(model, typ)
                   IN  \A k \in 1..Len(d.addrs) : Head(d.addrs[k].path) \in KeptFields
                /\ \A i \in 1..Len(typ.fields) :
                       typ.fields[i].Tag = <<"-", ";", "string">> =>
                           \E k \in 1..Len(model.fields) :
                               /\ model.fields[k].name = typ.fields[i].Name
                               /\ model.fields[k].qdbName = <<"-">>

\* a record by pointer with an excluded field before a declared one, and
\* one whose annotation is -;string, modelled, rendered and declared
C13_Witness ==
    /\ pc = "modelled" /\ line.done /\ stmt.done /\ byPtr
    /\ Len(typ.fields) = 2
    /\ typ.fields[1].Tag \in {<<"-">>, <<"-", ";", "string">>}
    /\ typ.fields[2].Tag # <<"-">>
    /\ rec.fields[2].v # 0
    /\ ~destinations(model, typ).panic

\* the part of a field list that is schema: names, column types, options
SchemaOf(fields) ==
    [i \in 1..Len(fields) |->
        [name |-> fields[i].name, qdbName |-> fields[i].qdbName,
         qdbType |-> fields[i].qdbType, tagOptions |-> fields[i].tagOptions]]

\* C14: two instances of one record type for which NewModel succeeds have
\* field lists equal in length, order, internal names, wire names, column
\* types and options, whatever the values, a nil against a set pointer to
\* an embedded record included
C14_SchemaIgnoresValues ==
    (pc = "modelled" /\ ~line.done /\ ~stmt.done) =>
        \A other \in ValuesOf(typ) :
            LET r == NewModel(typ, other, byPtr)
            IN  r.pc = "modelled" => SchemaOf(r.model.fields) = SchemaOf(model.fields)

\* the model of a record whose pointer to an embedded record is nil, with a
\* field list for the embedded record's field
C14_Witness ==
    /\ pc = "modelled" /\ ~line.done /\ ~stmt.done
    /\ \E i \in 1..Len(typ.fields) :
          /\ TypeSegment(typ.fields[i].Tag) = Embedded
          /\ typ.fields[i].Type.ptr
          /\ rec.fields[i].nil
          /\ \E k \in 1..Len(model.fields) :
                 model.fields[k].name = typ.fields[i].Name \o <<".", "F", "1">>

-----------------------------------------------------------------------------
(* C15 .. C17: the texts of the line and of the statement *)

RECURSIVE TextOf(_)
\* the tokens of a text put together
TextOf(s) == IF s = <<>> THEN "" ELSE Head(s) \o TextOf(Tail(s))

\* the record {Name: "Ahmad", Email: "ahmad@x.io", Age: 29}
IsAhmad ==
    /\ Len(rec.fields) = 3
    /\ rec.fields[1].v = AhmadName
    /\ rec.fields[2].v = AhmadEmail
    /\ rec.fields[3].v = 29

\* C15: for the record Name "Ahmad" (string), Email "ahmad@x.io" (symbol),
\* Age 29 (int), no designated timestamp, table users, MarshalLine returns
\* users,Email=ahmad@x.io Name="Ahmad",Age=29i and a newline, and the
\* statement is the CREATE TABLE text of the spec
C15_Scenario ==
    /\ (line.done /\ IsAhmad) =>
           TextOf(line.text) = "users,Email=ahmad@x.io Name=\"Ahmad\",Age=29i\n"
    /\ stmt.done =>
           TextOf(stmt.text) = "CREATE TABLE IF NOT EXISTS \"users\" ( \"Name\" string, \"Email\" symbol, \"Age\" int, \"timestamp\" timestamp ) timestamp(timestamp) ;"

\* both texts were returned for the example record
C15_Witness == line.done /\ stmt.done /\ IsAhmad

\* the first position of a token in a text
IndexOf(s, tok) == CHOOSE i \in 1..Len(s) : s[i] = tok /\ \A j \in 1..(i - 1) : s[j] # tok

\* the statement's text between the parentheses, and after them
ColumnSection(text) ==
    TextOf(SubSeq(text, IndexOf(text, "\" ( ") + 1, IndexOf(text, " ) ") - 1))
TrailingSection(text) == TextOf(SubSeq(text, IndexOf(text, " ) ") + 1, Len(text)))

\* the type keyword of a column: string for binary and json
Keyword(qdbType) ==
    IF qdbType \in {<<"binary">>, <<"json">>} THEN "string" ELSE TextOf(qdbType)

\* the fields of the model that are the designated timestamp
DesignatedFields(m) == {k \in 1..Len(m.fields) : m.fields[k].tagOptions.designatedTS}

\* the column definitions the spec asks for: one per field in order, then
\* the implicit column when no field is the designated timestamp
Definitions(m) ==
    [i \in 1..Len(m.fields) |->
        "\"" \o TextOf(m.fields[i].qdbName) \o "\" " \o Keyword(m.fields[i].qdbType)]
    \o (IF DesignatedFields(m) = {} THEN <<"\"timestamp\" timestamp">> ELSE <<>>)

RECURSIVE Joined(_, _)
\* strings.Join
Joined(ss, sep) ==
    IF ss = <<>> THEN ""
    ELSE IF Len(ss) = 1 THEN Head(ss)
    ELSE Head(ss) \o sep \o Joined(Tail(ss), sep)

\* C16: the column definitions of the statement are the fields in order,
\* each "<wireName>" <type>, joined by single commas with none leading or
\* trailing, for every Model (an empty field list included); the implicit
\* "timestamp" timestamp column is there exactly when no field is the
\* designated timestamp; the last clause names the designated field, or
\* timestamp
C16_StatementShape ==
    (stmt.done /\ ~model.createTableOptions.has /\ model.indexFields = <<>>) =>
        /\ ColumnSection(stmt.text) = Joined(Definitions(model), ", ")
        /\ TrailingSection(stmt.text) =
               "timestamp("
               \o (IF DesignatedFields(model) = {} THEN "timestamp"
                   ELSE TextOf(model.fields[CHOOSE k \in DesignatedFields(model) : TRUE].qdbName))
               \o ") ;"

\* the value of a 6-bit digit of the base64 alphabet (RFC 4648)
Sextet(c) == (CHOOSE i \in 1..64 : B64Chars[i] = c) - 1

RECURSIVE Decoded(_)
\* the bytes a padded base64 text stands for
Decoded(t) ==
    IF Len(t) < 4 THEN <<>>
    ELSE LET a == Sextet(t[1])
             b == Sextet(t[2])
         IN  (IF t[3] = "=" THEN <<a * 4 + b \div 16>>
              ELSE IF t[4] = "="
              THEN <<a * 4 + b \div 16, (b % 16) * 16 + Sextet(t[3]) \div 4>>
              ELSE <<a * 4 + b \div 16, (b % 16) * 16 + Sextet(t[3]) \div 4,
                     (Sextet(t[3]) % 4) * 64 + Sextet(t[4])>>)
             \o Decoded(SubSeq(t, 5, Len(t)))

\* a text is "<base64 of bytes>": quoted, of the padded length, decoding to
\* the bytes
IsQuotedBase64(text, bytes) ==
    /\ Len(text) >= 2 /\ text[1] = "\"" /\ text[Len(text)] = "\""
    /\ LET inner == SubSeq(text, 2, Len(text) - 1)
       IN  /\ Len(inner) = 4 * ((Len(bytes) + 2) \div 3)
           /\ \A k \in 1..Len(inner) :
                  \/ \E c \in 1..64 : B64Chars[c] = inner[k]
                  \/ inner[k] = "=" /\ k > Len(inner) - 2
           /\ Decoded(inner) = bytes

\* the bytes of a binary or json field's value
BytesHeld(ty, val, declared) ==
    IF declared = <<"json">> THEN BytesOfString(JsonText(ty, val))
    ELSE IF val.kind = "string" THEN BytesOfString(StringOf(val.v))
    ELSE BytesOf(val.v)

\* the value of the pair named name in the column section of a line
PairValues(text, name) ==
    LET pairs == ColumnPairs(text)
    IN  {SubSeq(pairs[k], IndexOf(pairs[k], "=") + 1, Len(pairs[k])) :
            k \in {j \in 1..Len(pairs) : PairName(pairs[j]) = name}}

\* the type keyword of the i-th column definition of a statement
KeywordAt(text, i) ==
    LET defs == Split(SubSeq(text, IndexOf(text, "\" ( ") + 1, IndexOf(text, " ) ") - 1), ", ")
    IN  defs[i][IndexOf(defs[i], "\" ") + 1]

\* C17: a binary or json field is declared string in the statement, never
\* binary or json, and its value in the line is the standard base64 text of
\* its bytes (for json, of the JSON encoding of the value) in double quotes;
\* every other field's type keyword is its declared column type name
C17_BinaryAndJson ==
    \A i \in 1..Len(typ.fields) :
        LET declared == TypeSegment(typ.fields[i].Tag)
            coded == declared \in {<<"binary">>, <<"json">>}
        IN  /\ stmt.done =>
                  KeywordAt(stmt.text, i) = (IF coded THEN "string" ELSE declared[1])
            /\ (line.done /\ coded /\ ~ZeroValued(line.of.fields[i])) =>
                  /\ Cardinality(PairValues(line.text, ColumnName(i))) = 1
                  /\ \A val \in PairValues(line.text, ColumnName(i)) :
                         IsQuotedBase64(val, BytesHeld(typ.fields[i].Type, line.of.fields[i], declared))

\* a record with the bytes {0x01, 0x02} in a binary field and a non-zero
\* json field, rendered and declared
C17_Witness ==
    /\ line.done /\ stmt.done /\ Len(typ.fields) = 2
    /\ TypeSegment(typ.fields[1].Tag) = <<"binary">>
    /\ typ.fields[1].Type.kind = "Bytes"
    /\ BytesOf(line.of.fields[1].v) = <<1, 2>>
    /\ PairValues(line.text, ColumnName(1)) = {<<"\"", "A", "Q", "I", "=", "\"">>}
    /\ TypeSegment(typ.fields[2].Tag) = <<"json">>
    /\ ~ZeroValued(line.of.fields[2])

-----------------------------------------------------------------------------
(* C18: the scan destinations *)

RECURSIVE WireAt(_, _, _)
\* the wire name declared for the storage at path of a record type
WireAt(ty, path, prefix) ==
    LET sf == ty.fields[Head(path)]
        segs == Split(sf.Tag, ";")
        declaredPrefix ==
            LET ks == {k \in 3..Len(segs) : Len(segs[k]) >= 2 /\ segs[k][1] = "embeddedPrefix"}
            IN  IF ks = {} THEN <<>> ELSE SliceFrom(segs[CHOOSE k \in ks : TRUE], 3)
    IN  IF Tail(path) = <<>> THEN prefix \o segs[1]
        ELSE WireAt(sf.Type, Tail(path), declaredPrefix)

RECURSIVE TypeAt(_, _)
\* the declared type of the storage at path of a record type
TypeAt(ty, path) ==
    IF path = <<>> THEN ty ELSE TypeAt(ty.fields[Head(path)].Type, Tail(path))

\* C18: the destination list has one entry per field of the Model; its i-th
\* entry addresses the storage of the field whose wire name is the i-th
\* name of Columns(); an entry is behind the proxy exactly when the address
\* of the field has the custom-scan capability; the proxy's Scan hands its
\* argument to that field's QDBScan and returns what QDBScan returns
C18_Destinations ==
    (pc = "scanned" \/ dests # <<>>) =>
        /\ Len(dests) = Len(model.fields)
        /\ dests # <<>> => Len(Split(Columns(model), ", ")) = Len(dests)
        /\ \A i \in 1..Len(dests) :
              /\ Split(Columns(model), ", ")[i] = WireAt(typ, dests[i].path, <<>>)
              /\ dests[i].proxy <=>
                     (TypeAt(typ, dests[i].path).kind = "Level" /\ ~TypeAt(typ, dests[i].path).ptr)
        /\ Len(scanned) <= Len(dests)
        /\ \A k \in 1..Len(scanned) :
              /\ scanned[k].recv = dests[k].path
              /\ (scanned[k].via = "QDBScan") <=> dests[k].proxy
              /\ dests[k].proxy => (scanned[k].arg = scanned[k].src /\ scanned[k].ret = scanned[k].res)
              /\ ~scanned[k].ret => (pc = "error" /\ k = Len(scanned))

\* a row was scanned into a record with a plain field and a field of a
\* type with QDBScan, one behind an embedded pointer
C18_Witness ==
    /\ pc = "scanned" /\ Len(scanned) = 2
    /\ \E i, j \in 1..Len(dests) : dests[i].proxy /\ ~dests[j].proxy /\ Len(dests[j].path) = 2

-----------------------------------------------------------------------------
(* C19, C20: the client *)

\* the lines of a payload, each without its newline
LinesOf(payload) ==
    LET parts == Split(payload, "\n") IN SubSeq(parts, 1, Len(parts) - 1)

\* the table name a line starts with
LineTable(l) == TextOf(Split(Split(l, " ")[1], ",")[1])

\* the table name a statement creates
StatementTable(text) == TextOf(SubSeq(text, 2, IndexOf(text, "\" ( ") - 1))

\* the lower-snake-case plural of the names of the record types
PluralSnake(name) ==
    CASE name = "User" -> "users"
      [] name = "ActiveUser" -> "active_users"
      [] name = "PageView" -> "page_views"

\* the table name the spec gives a call: the last option with a name, else
\* the TableName capability, else the plural of the type name
ExpectedTable ==
    LET named == {k \in 1..Len(call.options) : call.options[k].tableName # <<>>}
    IN  IF named # {}
        THEN TextOf(call.options[CHOOSE k \in named : \A j \in named : j <= k].tableName)
        ELSE IF typ.tableNamer.has THEN TextOf(typ.tableNamer.name)
        ELSE PluralSnake(TextOf(typ.name))

\* C19: the table name of every line written by Write and WriteBatch and of
\* the statement executed by CreateTableIfNotExists is the name of the last
\* WithTableName option with a non-empty name, else the name TableName
\* returns, else the lower-snake-case type name with s appended; an option
\* with an empty name changes nothing
C19_TableName ==
    /\ \A w \in 1..Len(wire) :
          \A k \in 1..Len(LinesOf(wire[w])) : LineTable(LinesOf(wire[w])[k]) = ExpectedTable
    /\ \A x \in 1..Len(execd) : StatementTable(execd[x]) = ExpectedTable

\* two rows written in one batch under WithTableName("t1"), WithTableName("")
C19_Witness ==
    /\ call.op = "WriteBatch"
    /\ call.options = <<WithTableName(<<"t", "1">>), WithTableName(<<>>)>>
    /\ Len(wire) = 1
    /\ Len(LinesOf(wire[1])) = 2
    /\ LineTable(LinesOf(wire[1])[2]) = "t1"

\* what NewModel returns for the i-th row of the call
Built(i) == NewModel(typ, call.rows[i], byPtr)

RECURSIVE LinesFrom(_)
\* the lines of the rows of the call from row i on, one after the other
LinesFrom(i) ==
    IF i > Len(call.rows) THEN <<>>
    ELSE marshalled(withOptions(Built(i).model, call.options, 1), call.rows[i]).text
         \o LinesFrom(i + 1)

\* C20: Write and WriteBatch write all or nothing: when the Model of some
\* row cannot be built the call returns the error of the first such row and
\* nothing is written, wherever that row is; otherwise there is exactly one
\* transport write, of the rows' lines in input order, each ending in a
\* newline
C20_AllOrNothing ==
    call.op \in {"Write", "WriteBatch"} =>
        LET unbuilt == {i \in 1..Len(call.rows) : Built(i).pc # "modelled"}
        IN  IF unbuilt # {}
            THEN /\ pc = "error"
                 /\ err = Built(CHOOSE i \in unbuilt : \A j \in unbuilt : i <= j).err
                 /\ wire = <<>>
            ELSE /\ pc \in {"written", "error"}
                 /\ Len(wire) = 1
                 /\ wire[1] = LinesFrom(1)
                 /\ Len(LinesOf(wire[1])) = Len(call.rows)

-----------------------------------------------------------------------------
(* C21 *)

\* the bytes one more MarshalLine call on the model returns, the record left
\* as it is: the serialization pass over the fields as the last call left
\* them, then the text
Again(m, root) ==
    LET ser == serialize(m.fields, root)
    IN  [panic |-> ser.panic,
         text |-> MarshalLine([m EXCEPT !.fields = ser.fields], root)]

\* the fields of the model whose text the last pass computed
Encoded(m) == {i \in 1..Len(m.fields) : Kept(m.fields[i])}

-----------------------------------------------------------------------------
(* C22 *)

RECURSIVE Ascending(_, _)
\* the keys of the map m in the order of the sequence keys
Ascending(keys, m) ==
    IF keys = <<>> THEN <<>>
    ELSE (IF Head(keys) \in DOMAIN m THEN <<Head(keys)>> ELSE <<>>) \o Ascending(Tail(keys), m)

\* the pairs key=value of the keys, as texts
PairTexts(m, keys) == [i \in 1..Len(keys) |-> keys[i] \o <<"=">> \o m[keys[i]]]

RECURSIVE CommaJoined(_)
\* the texts with one comma between neighbours
CommaJoined(texts) ==
    IF texts = <<>> THEN <<>>
    ELSE IF Len(texts) = 1 THEN Head(texts)
    ELSE Head(texts) \o <<",">> \o CommaJoined(Tail(texts))

\* table[,symbols][ columns] timestamp and a newline, the pairs of each
\* section comma-joined in ascending key order
FixedOrderText(l) ==
    LET symbols == PairTexts(l.symbols, Ascending(SymbolKeys, l.symbols))
        columns == PairTexts(l.columns, Ascending(ColumnKeys, l.columns))
    IN  l.table
        \o (IF symbols # <<>> THEN <<",">> \o CommaJoined(symbols) ELSE <<>>)
        \o (IF columns # <<>> THEN <<" ">> \o CommaJoined(columns) ELSE <<>>)
        \o <<" ">> \o Digits(UnixNano(l.timestamp)) \o <<"\n">>

\* C22: every string Line.String returns for a Line built by NewLine is the
\* table name, the symbol pairs, the column pairs and the nanoseconds of the
\* timestamp, the pairs of a section in one fixed (ascending key) order, so
\* that two calls on the same Line return the same string.
C22_LineString ==
    /\ \A i \in 1..Len(rendered) : rendered[i] = FixedOrderText(ilpLine)
    /\ \A i, j \in 1..Len(rendered) : rendered[i] = rendered[j]

-----------------------------------------------------------------------------
(* C23 *)

\* the bits of a Go integer kind (int and uint are 64 bits wide at most) and
\* whether it is signed
KindBits(kind) ==
    CASE kind \in {"int8", "uint8"} -> 8
      [] kind \in {"int16", "uint16"} -> 16
      [] kind \in {"int32", "uint32"} -> 32
      [] OTHER -> 64
KindSigned(kind) == kind \in {"int8", "int16", "int32", "int64", "int"}

\* the signed bits of an integer column type
ColumnBits(qdbType) ==
    CASE qdbType = Byte -> 8
      [] qdbType = Short -> 16
      [] qdbType = Int -> 32
      [] qdbType = Long -> 64

\* every value of the kind is a value of the column type
RangeContained(kind, qdbType) ==
    IF KindSigned(kind) THEN KindBits(kind) <= ColumnBits(qdbType)
    ELSE KindBits(kind) < ColumnBits(qdbType)

\* C23: a value of an integer kind that its integer column type accepts is
\* encoded as its decimal digits followed by the marker i, and the range of
\* the kind is contained in the range of the column type.
C23_IntegerEncoding ==
    (pc = "modelled" /\ Kept(model.fields[1])) =>
        /\ model.fields[1].valueSerialized = Digits(rec.fields[1].v) \o <<"i">>
        /\ RangeContained(model.fields[1].typ.kind, model.fields[1].qdbType)

-----------------------------------------------------------------------------
(* C24 *)

\* C24: after a MarshalLine call on the Model of a pointer to a record,
\* whatever was assigned to the record since NewModel, the zero flag of each
\* field is true exactly when the field's value is zero now, and a field
\* whose value is not zero now has its pair in the line.
C24_ZeroFlagTracksValue ==
    (pc = "modelled" /\ line.done /\ line.of = rec) =>
        \A i \in 1..Len(model.fields) :
            LET f == model.fields[i]
            IN  /\ f.isZero = ZeroValued(FieldValue(rec, f))
                /\ (~ZeroValued(FieldValue(rec, f)) /\ ~f.tagOptions.designatedTS) =>
                      PairsNamed(SymbolPairs(line.text) \o ColumnPairs(line.text), f.qdbName) = 1

-----------------------------------------------------------------------------
(* C25 *)

\* C25: when NewModel(dest) succeeds, for a record passed by value, a
\* pointer to a record, or a record whose pointer to an embedded record is
\* nil, ScanInto does not crash while it builds the destination list, and
\* every entry handed to row.Scan is the address of storage of dest.
C25_ScanNeverCrashes ==
    model # NoModel =>
        /\ pc # "panic"
        /\ \A i \in 1..Len(dests) :
              /\ IsValid(Lookup(rec, dests[i].path))
              /\ Addressable(typ, dests[i].path, byPtr)

-----------------------------------------------------------------------------
(* C26 *)

\* C26: NewModel terminates on every record type, one with an embedded field
\* of (a pointer to) the record type itself or of a type that embeds it back
\* included: the walk over the embedded records never runs out of stack,
\* and the call, once over, has returned a Model or an error.
C26_NewModelTerminates ==
    /\ pc \in {"start", "walking", "modelled", "error"}
    /\ pc = "modelled" <=> model # NoModel
    /\ pc = "error" <=> err # NoErr

-----------------------------------------------------------------------------
(* C27 *)

\* the statement after its timestamp(...) clause, without the closing ;
OptionClause(text) ==
    LET ends == {i \in 1..Len(text) : text[i] \in {"timestamp(timestamp) ", ") "}}
        last == CHOOSE i \in ends : \A j \in ends : j <= i
    IN  SubSeq(text, last + 1, Len(text) - 1)

\* a text without its spaces
Words(text) == SelectSeq(text, LAMBDA tok : tok # " ")

\* the parameters of the options that are set, each as name=value
SetParameters(c) ==
    (IF c.MaxUncommittedRows # 0
     THEN <<(<<"maxUncommittedRows", "=">> \o Digits(c.MaxUncommittedRows))>> ELSE <<>>)
    \o (IF c.CommitLag # <<>> THEN <<(<<"commitLag", "=">> \o c.CommitLag)>> ELSE <<>>)

\* C27: the option text of the statement is PARTITION BY <strategy> exactly
\* when a strategy is set, followed by the set parameters among
\* maxUncommittedRows and commitLag, comma-separated after exactly one WITH,
\* and by no WITH when neither is set; a commitLag set while
\* maxUncommittedRows is 0 is introduced by WITH too.
C27_OptionClause ==
    stmt.done =>
        LET c == typ.createTableOptioner.opts
        IN  Words(OptionClause(stmt.text))
              = (IF c.PartitionBy # <<>> THEN <<"PARTITION", "BY">> \o c.PartitionBy ELSE <<>>)
                \o (IF SetParameters(c) # <<>>
                    THEN <<"WITH">> \o CommaJoined(SetParameters(c))
                    ELSE <<>>)

-----------------------------------------------------------------------------
(* C28 *)

\* the errors Connect returns before a connection is dialed
BeforeDial == {ErrILPNetTCPAddrResolve, ErrILPNetDial, ErrILPTLSDial}

\* C28: when Connect returns an error, the connection it dialed during the
\* call, if any, is closed or is not the one the client holds: the client is
\* not left with an open ingestion connection by a failed Connect.
C28_NoConnectionAfterError ==
    (call.op = "Connect" /\ pc = "error" /\ err.kind \notin BeforeDial) =>
        \/ client.ilpConn # Len(conns)
        \/ conns[Len(conns)] = "closed"

====
